---------------------------- MODULE Spec2Model ----------------------------
(***************************************************************************)
(* The Step Functions frontend of unum (src/frontend/step-functions/sf.py) *)
(* as a state machine.  _translate_state_machine is a recursive function   *)
(* that builds configuration dicts, returns them up the call stack and     *)
(* mutates them afterwards; the model runs it on an explicit call stack,   *)
(* one frame per call, with the dicts in a heap addressed by handles, so   *)
(* that every return, every deferred assignment and every access to the    *)
(* module-level counters is a step of its own.                             *)
(***************************************************************************)
EXTENDS Integers, Sequences, FiniteSets, TLC

VARIABLES
    unum_map_counter,       \* sf.py:12, module-level
    unum_parallel_counter,  \* sf.py:13, module-level
    phase,                  \* per thread: idle, lowering, lowered, done
    workflow,               \* per thread: the state machine being compiled
    stack,                  \* per thread: the frames of _translate_state_machine
    ret,                    \* per thread: the value the last call returned
    heap,                   \* per thread: the config dicts created so far
    results,                \* per thread: the IR of each finished compilation
    arn_file_readable,      \* sf.py:35, whether function-arn.yaml can be read
    cli                     \* unum_cli.py: the state of the unum_cli command run

vars == <<unum_map_counter, unum_parallel_counter, phase, workflow, stack,
          ret, heap, results, arn_file_readable, cli>>

\* What the lowering never writes.
outside == <<arn_file_readable, cli>>

(***************************************************************************)
(* Bounds of the model.                                                    *)
(***************************************************************************)
\* States (at all nesting depths together) of a workflow compiled alone.
MaxNodes == 4
\* Top-level compilations one process performs in succession.
MaxRuns == 2
\* States of a workflow compiled concurrently with another one.
ConcMaxNodes == 3
\* States of a workflow that may be malformed.
ErrMaxNodes == 3
\* States of a workflow compiled through unum_cli.
CliMaxNodes == 3
\* States of a workflow whose Next links may form a cycle.
CycMaxNodes == 3
\* Calls of _translate_state_machine in progress at which the interpreter
\* raises RecursionError: sys.getrecursionlimit(), 1000 unless set, scaled
\* down.
RecursionLimit == 8

(***************************************************************************)
(* Python values.  A str, a list and a dict are kept apart by a tag, as    *)
(* the code puts a str or a list in "Next" and a str or a dict in          *)
(* "NextInput".                                                            *)
(***************************************************************************)
PyStr(s) == [str |-> s]
PyList(l) == [list |-> l]
PyDict(d) == [dict |-> d]

\* Python's `sub in s` on two strings.
StrContains(s, sub) ==
    \E i \in 1..(Len(s) - Len(sub) + 1) : SubSeq(s, i, i + Len(sub) - 1) = sub

\* Python's `key in v`: substring test on a str, key test on a dict,
\* element test on a list.
PyIn(key, v) ==
    IF "str" \in DOMAIN v THEN StrContains(v.str, key)
    ELSE IF "dict" \in DOMAIN v THEN key \in DOMAIN v.dict
    ELSE \E i \in DOMAIN v.list : v.list[i] = key

(***************************************************************************)
(* The inputs: Step Functions state machines.  A state is a dict with the  *)
(* keys Type, Resource, End, Next, Iterator, Branches (those its type      *)
(* has); a state machine is a dict with StartAt and States.                *)
(***************************************************************************)
LambdaArn(name) == "arn:aws:lambda:us-west-1:123456789012:function:" \o name

\* function-arn.yaml: function name -> ARN, in file order.
function_arn_yaml == << <<"f2", LambdaArn("f2")>>, <<"f3", LambdaArn("f3")>> >>

StateName(i) == "S" \o ToString(i)

\* The state machine whose states are the given bodies, chained by Next in
\* order, the last one terminal.
MkMachine(bodies) ==
    [StartAt |-> StateName(1),
     States |-> [n \in {StateName(i) : i \in 1..Len(bodies)} |->
        LET i == CHOOSE j \in 1..Len(bodies) : StateName(j) = n
        IN  IF i < Len(bodies)
            THEN bodies[i] @@ ("Next" :> StateName(i + 1))
            ELSE bodies[i] @@ ("End" :> TRUE)]]

RECURSIVE BodiesOfSize(_, _), ChainsOfSize(_, _), BranchSeqsOfSize(_, _)
\* The states (without Next/End) that hold n states in all, over resources R.
BodiesOfSize(n, R) ==
    IF n = 1 THEN {[Type |-> "Task", Resource |-> r] : r \in R}
    ELSE {[Type |-> "Map", Iterator |-> MkMachine(c)] : c \in ChainsOfSize(n - 1, R)}
         \cup {[Type |-> "Parallel", Branches |-> bs] : bs \in BranchSeqsOfSize(n - 1, R)}
ChainsOfSize(n, R) ==
    IF n = 0 THEN {<<>>}
    ELSE UNION {{<<b>> \o rest : b \in BodiesOfSize(k, R), rest \in ChainsOfSize(n - k, R)}
                : k \in 1..n}
BranchSeqsOfSize(n, R) ==
    IF n = 0 THEN {<<>>}
    ELSE UNION {{<<MkMachine(c)>> \o rest :
                    c \in ChainsOfSize(k, R), rest \in BranchSeqsOfSize(n - k, R)}
                : k \in 1..n}

WorkflowsOver(R, n) == UNION {{MkMachine(c) : c \in ChainsOfSize(k, R)} : k \in 1..n}

Resources == {"f1", LambdaArn("f2")}
Workflows == WorkflowsOver(Resources, MaxNodes)
\* The workflows of two concurrent compilations use functions of their own.
ConcWorkflows(t) ==
    WorkflowsOver(IF t = 1 THEN {"f1"} ELSE {LambdaArn("f2")}, ConcMaxNodes)

(***************************************************************************)
(* Inputs that may be malformed: a workflow as above with one state, at    *)
(* any depth and position, changed.  A body carries the change as a        *)
(* `marker`, which MkErrMachine turns into the state's End and Next:       *)
(*   neither    no End, no Next                                            *)
(*   end_false  End false, no Next                                         *)
(*   both       End true and a Next (the next state of the chain, or a     *)
(*              name of no state of the graph when it is the last)         *)
(*   beyond     Next names the state one past the last of its own graph    *)
(*              (an enclosing or a nested graph may have a state of that   *)
(*              name)                                                      *)
(*   nowhere    Next names a state no graph has                            *)
(* The other changes: a Resource whose ARN function-arn.yaml does not      *)
(* record, a Parallel without branches, a Map whose iterator has no        *)
(* StartAt, a state of a Type that is none of Task, Map and Parallel.      *)
(***************************************************************************)
MarkerOf(body) == IF "marker" \in DOMAIN body THEN body.marker ELSE "ok"

\* The keys of a state dict: the body without its marker.
Unmarked(body) == [k \in DOMAIN body \ {"marker"} |-> body[k]]

MkErrMachine(bodies) ==
    [StartAt |-> StateName(1),
     States |-> [n \in {StateName(i) : i \in 1..Len(bodies)} |->
        LET i == CHOOSE j \in 1..Len(bodies) : StateName(j) = n
            body == Unmarked(bodies[i])
            marker == MarkerOf(bodies[i])
        IN  CASE marker = "neither" -> body
              [] marker = "end_false" -> body @@ ("End" :> FALSE)
              [] marker = "both" ->
                    body @@ ("End" :> TRUE) @@ ("Next" :> StateName(i + 1))
              [] marker = "beyond" -> body @@ ("Next" :> StateName(Len(bodies) + 1))
              [] marker = "nowhere" -> body @@ ("Next" :> "nowhere")
              [] OTHER -> IF i < Len(bodies)
                          THEN body @@ ("Next" :> StateName(i + 1))
                          ELSE body @@ ("End" :> TRUE)]]

TaskMarkers == {"neither", "end_false", "both", "beyond", "nowhere"}
NextMarkers == {"beyond", "nowhere"}

RECURSIVE ErrBodiesOfSize(_, _), ErrChainsOfSize(_, _), ErrBranchSeqsOfSize(_, _)
\* The bodies of n states in all with exactly one of them changed.
ErrBodiesOfSize(n, R) ==
    IF n = 1
    THEN {[Type |-> "Task", Resource |-> r, marker |-> m] : r \in R, m \in TaskMarkers}
         \cup {[Type |-> "Task", Resource |-> LambdaArn("f9")]}
         \cup {[Type |-> "Parallel", Branches |-> <<>>]}
         \cup {[Type |-> "Choice"]}
    ELSE {[Type |-> "Map", Iterator |-> MkErrMachine(c)] : c \in ErrChainsOfSize(n - 1, R)}
         \cup {[Type |-> "Map", Iterator |-> MkMachine(c), marker |-> m] :
                    c \in ChainsOfSize(n - 1, R), m \in NextMarkers}
         \cup {[Type |-> "Map", Iterator |-> [States |-> MkMachine(c).States]] :
                    c \in ChainsOfSize(n - 1, R)}
         \cup {[Type |-> "Parallel", Branches |-> bs] : bs \in ErrBranchSeqsOfSize(n - 1, R)}
         \cup {[Type |-> "Parallel", Branches |-> bs, marker |-> m] :
                    bs \in BranchSeqsOfSize(n - 1, R), m \in NextMarkers}
ErrChainsOfSize(n, R) ==
    IF n = 0 THEN {}
    ELSE UNION {{<<b>> \o rest : b \in ErrBodiesOfSize(k, R), rest \in ChainsOfSize(n - k, R)}
                \cup {<<b>> \o rest : b \in BodiesOfSize(k, R),
                                       rest \in ErrChainsOfSize(n - k, R)}
                : k \in 1..n}
ErrBranchSeqsOfSize(n, R) ==
    IF n = 0 THEN {}
    ELSE UNION {{<<MkErrMachine(c)>> \o rest :
                    c \in ErrChainsOfSize(k, R), rest \in BranchSeqsOfSize(n - k, R)}
                \cup {<<MkMachine(c)>> \o rest :
                    c \in ChainsOfSize(k, R), rest \in ErrBranchSeqsOfSize(n - k, R)}
                : k \in 1..n}

\* Well-formed and malformed workflows of up to n states.
ErrWorkflowsOfSize(n) ==
    WorkflowsOver(Resources, n)
    \cup UNION {{MkErrMachine(c) : c \in ErrChainsOfSize(k, Resources)} : k \in 1..n}
    \cup {[States |-> MkMachine(<<[Type |-> "Task", Resource |-> "f1"]>>).States]}

ErrWorkflows == ErrWorkflowsOfSize(ErrMaxNodes)

(***************************************************************************)
(* Inputs with a cycle: a chain whose last state, instead of being         *)
(* terminal, has a Next naming state j of the chain (itself included), at  *)
(* the top level, as the iterator of a Map or as the only branch of a      *)
(* Parallel.                                                               *)
(***************************************************************************)
MkCycle(bodies, j) ==
    [StartAt |-> StateName(1),
     States |-> [n \in {StateName(i) : i \in 1..Len(bodies)} |->
        LET i == CHOOSE k \in 1..Len(bodies) : StateName(k) = n
        IN  bodies[i] @@ ("Next" :> StateName(IF i < Len(bodies) THEN i + 1 ELSE j))]]

CyclesOfSize(n) ==
    UNION {{MkCycle(c, j) : j \in 1..Len(c)} : c \in ChainsOfSize(n, {"f1"})}

CycWorkflows ==
    UNION {CyclesOfSize(n) : n \in 1..CycMaxNodes}
    \cup UNION {{MkMachine(<<[Type |-> "Map", Iterator |-> c]>>),
                 MkMachine(<<[Type |-> "Parallel", Branches |-> <<c>>]>>)}
                : c \in UNION {CyclesOfSize(n) : n \in 1..(CycMaxNodes - 1)}}
    \cup WorkflowsOver({"f1"}, CycMaxNodes)

(***************************************************************************)
(* get_state_unum_function_name: the unum function name of a Task state.   *)
(***************************************************************************)
\* list(arn_to_name_mapping.values()).index(resource): the first position.
ArnIndex(resource) ==
    CHOOSE i \in 1..Len(function_arn_yaml) :
        /\ function_arn_yaml[i][2] = resource
        /\ \A j \in 1..(i - 1) : function_arn_yaml[j][2] # resource

\* sf.py:33-43 raise nothing: the Resource is no Lambda ARN, or the file can
\* be read and records the ARN for some function.
Resolves(state) ==
    \/ ~StrContains(state.Resource, "arn:aws:lambda")
    \/ /\ arn_file_readable
       /\ \E i \in 1..Len(function_arn_yaml) : function_arn_yaml[i][2] = state.Resource

\* The Resource itself taken for the name, Lambda ARN or not.
get_state_unum_function_name_literal(state) == state.Resource

get_state_unum_function_name(state) ==
    IF StrContains(state.Resource, "arn:aws:lambda")
    THEN function_arn_yaml[ArnIndex(state.Resource)][1]
    ELSE state.Resource

(***************************************************************************)
(* Frames, return values and config dicts.                                 *)
(***************************************************************************)
\* No call has returned since the last call was made.
NoRet == [none |-> TRUE]

\* Python's None, what a call returns that ends without a return statement.
PyNone == [py_none |-> TRUE]

\* The dict with the entry and the exit function in each other's place.
RetVal_swapped(state_name, ir, entry, exit) ==
    [state_name |-> state_name, ir |-> ir, entry |-> exit, exit |-> entry]

\* The dict a call returns; "unum IR" is a list of handles, the entry and
\* exit functions are handles (Python references to the same dicts).
RetVal(state_name, ir, entry, exit) ==
    [state_name |-> state_name, ir |-> ir, entry |-> entry, exit |-> exit]

\* A call _translate_state_machine(state_name, state_machine) about to run:
\* sf.py:55 has found the state, or is about to raise KeyError.
NewFrame(state_name, state_machine) ==
    [state_name |-> state_name, state_machine |-> state_machine,
     pc |-> IF "States" \in DOMAIN state_machine
               /\ state_name \in DOMAIN state_machine.States
            THEN "start" ELSE "key_error",
     ir |-> <<>>, iterator |-> NoRet, branches |-> <<>>, i |-> 1,
     barrier |-> 0, sink |-> 0, loaded |-> 0, parallel_fan_in_vals |-> <<>>]

\* translate_state_machine(state_machine): the call on the entry state, or
\* the KeyError of sf.py:196-198 on a graph without States or StartAt.
translate_state_machine(state_machine) ==
    IF "States" \in DOMAIN state_machine /\ "StartAt" \in DOMAIN state_machine
    THEN NewFrame(state_machine.StartAt, state_machine)
    ELSE [NewFrame("", state_machine) EXCEPT !.pc = "key_error"]

Top(t) == stack[t][Len(stack[t])]
StateOf(f) == f.state_machine.States[f.state_name]
Running(t) == phase[t] = "lowering" /\ stack[t] # <<>>

\* d[key] = value on a dict.
SetKey(d, key, value) ==
    [k \in DOMAIN d \cup {key} |-> IF k = key THEN value ELSE d[k]]

\* The top frame goes on as f.
Goto(t, f) ==
    /\ stack' = [stack EXCEPT ![t] = [@ EXCEPT ![Len(@)] = f]]
    /\ phase' = phase

\* The top frame, going on as f, calls `callee` and waits for its value.
Call(t, f, callee) ==
    /\ Len(stack[t]) < RecursionLimit
    /\ stack' = [stack EXCEPT ![t] = Append([@ EXCEPT ![Len(@)] = f], callee)]
    /\ ret' = [ret EXCEPT ![t] = NoRet]
    /\ phase' = phase

\* An exception leaves the top frame: no caller catches it, every frame is
\* left, no call returns a value and main ends with the traceback.
Raise(t, exception) ==
    /\ stack' = [stack EXCEPT ![t] = <<>>]
    /\ ret' = [ret EXCEPT ![t] = [raised |-> exception]]
    /\ phase' = [phase EXCEPT ![t] = "failed"]

\* sf.py:55 (or 196-198): the state, StartAt or States is not there.
KeyErrorRaise(t) ==
    /\ Running(t)
    /\ Top(t).pc = "key_error"
    /\ Raise(t, "KeyError")
    /\ UNCHANGED <<outside, unum_map_counter, unum_parallel_counter, workflow, heap, results>>

\* The next step of the top frame is a call of _translate_state_machine:
\* sf.py:74, 96 (through 198), 143 (through 198), 123, 168.
AboutToCall(t) ==
    LET f == Top(t)
        state == StateOf(f)
    IN  IF f.pc = "key_error" THEN FALSE
        ELSE IF f.pc = "start" /\ state.Type = "Task"
        THEN /\ Resolves(state)
             /\ ~("End" \in DOMAIN state /\ state.End = TRUE)
             /\ "Next" \in DOMAIN state
        ELSE IF f.pc = "start" /\ state.Type = "Map" THEN TRUE
        ELSE IF f.pc \in {"start", "parallel_branches"} /\ state.Type = "Parallel"
        THEN Len(f.branches) + (IF ret[t] # NoRet THEN 1 ELSE 0) < Len(state.Branches)
        ELSE IF f.pc = "map_wired" \/ (f.pc = "parallel_wire" /\ f.i > Len(f.branches))
        THEN "Next" \in DOMAIN state
        ELSE FALSE

\* The call would be one too many: the interpreter raises RecursionError,
\* which nothing catches.
RecursionRaise(t) ==
    /\ Running(t)
    /\ Len(stack[t]) >= RecursionLimit
    /\ AboutToCall(t)
    /\ Raise(t, "RecursionError")
    /\ UNCHANGED <<outside, unum_map_counter, unum_parallel_counter, workflow, heap, results>>

\* The top frame returns value v to its caller (or to main).
Return(t, v) ==
    /\ stack' = [stack EXCEPT ![t] = SubSeq(@, 1, Len(@) - 1)]
    /\ ret' = [ret EXCEPT ![t] = v]
    /\ phase' = [phase EXCEPT ![t] = IF Len(stack[t]) = 1 THEN "lowered" ELSE @]

(***************************************************************************)
(* main, sf.py:223: ir = translate_state_machine(state_machine).           *)
(***************************************************************************)
StartLowering(t) ==
    /\ stack' = [stack EXCEPT ![t] = <<translate_state_machine(workflow[t])>>]
    /\ ret' = [ret EXCEPT ![t] = NoRet]
    /\ heap' = [heap EXCEPT ![t] = <<>>]
    /\ phase' = [phase EXCEPT ![t] = "lowering"]
    /\ UNCHANGED <<outside, unum_map_counter, unum_parallel_counter, workflow, results>>

Compile(t) ==
    /\ phase[t] = "idle"
    /\ StartLowering(t)

\* The same input compiled again in the same process: the module-level
\* counters are what the previous compilation left.
Recompile(t) ==
    /\ phase[t] = "done"
    /\ Len(results[t]) < MaxRuns
    /\ StartLowering(t)

(***************************************************************************)
(* _translate_state_machine, Task (sf.py:58-92).                           *)
(***************************************************************************)
TaskEndConfig(state) == [Name |-> get_state_unum_function_name(state)]

\* A terminal Task named with the process-wide counter, which it advances.
TaskEnd_numbered(t) ==
    /\ Running(t)
    /\ LET f == Top(t)
           state == StateOf(f)
           h == Len(heap[t]) + 1
       IN  /\ f.pc = "start"
           /\ state.Type = "Task"
           /\ "End" \in DOMAIN state /\ state.End = TRUE
           /\ heap' = [heap EXCEPT ![t] = Append(@,
                [Name |-> get_state_unum_function_name(state)
                            \o ToString(unum_map_counter)])]
           /\ Return(t, RetVal(f.state_name, <<h>>, h, h))
    /\ unum_map_counter' = unum_map_counter + 1
    /\ UNCHANGED <<outside, unum_parallel_counter, workflow, results>>

\* sf.py:59: get_state_unum_function_name raises (33-43).
ResolveRaise(t) ==
    /\ Running(t)
    /\ LET f == Top(t)
           state == StateOf(f)
       IN  /\ f.pc = "start"
           /\ state.Type = "Task"
           /\ ~Resolves(state)
    /\ Raise(t, IF arn_file_readable THEN "ValueError" ELSE "FileNotFoundError")
    /\ UNCHANGED <<outside, unum_map_counter, unum_parallel_counter, workflow, heap, results>>

\* A Task with neither End == True nor Next taken for a terminal one.
TaskRaise_as_terminal(t) ==
    /\ Running(t)
    /\ LET f == Top(t)
           state == StateOf(f)
           h == Len(heap[t]) + 1
       IN  /\ f.pc = "start"
           /\ state.Type = "Task"
           /\ Resolves(state)
           /\ ~("End" \in DOMAIN state /\ state.End = TRUE)
           /\ "Next" \notin DOMAIN state
           /\ heap' = [heap EXCEPT ![t] = Append(@, TaskEndConfig(state))]
           /\ Return(t, RetVal(f.state_name, <<h>>, h, h))
    /\ UNCHANGED <<outside, unum_map_counter, unum_parallel_counter, workflow, results>>

\* sf.py:91-92: neither End == True nor Next.
TaskRaise(t) ==
    /\ Running(t)
    /\ LET f == Top(t)
           state == StateOf(f)
       IN  /\ f.pc = "start"
           /\ state.Type = "Task"
           /\ Resolves(state)
           /\ ~("End" \in DOMAIN state /\ state.End = TRUE)
           /\ "Next" \notin DOMAIN state
    /\ Raise(t, "RuntimeError")
    /\ UNCHANGED <<outside, unum_map_counter, unum_parallel_counter, workflow, heap, results>>

TaskEnd(t) ==
    /\ Running(t)
    /\ LET f == Top(t)
           state == StateOf(f)
           h == Len(heap[t]) + 1
       IN  /\ f.pc = "start"
           /\ state.Type = "Task"
           /\ Resolves(state)
           /\ "End" \in DOMAIN state /\ state.End = TRUE
           /\ heap' = [heap EXCEPT ![t] = Append(@, TaskEndConfig(state))]
           /\ Return(t, RetVal(f.state_name, <<h>>, h, h))
    /\ UNCHANGED <<outside, unum_map_counter, unum_parallel_counter, workflow, results>>

TaskNext(t) ==
    /\ Running(t)
    /\ LET f == Top(t)
           state == StateOf(f)
       IN  /\ f.pc = "start"
           /\ state.Type = "Task"
           /\ Resolves(state)
           /\ ~("End" \in DOMAIN state /\ state.End = TRUE)
           /\ "Next" \in DOMAIN state
           /\ Call(t, [f EXCEPT !.pc = "task_next"],
                   NewFrame(state.Next, f.state_machine))
    /\ UNCHANGED <<outside, unum_map_counter, unum_parallel_counter, workflow, heap, results>>

\* The successor named by its state, not by its entry function.
TaskNextConfig_state_name(state, next_entry) ==
    [Name |-> get_state_unum_function_name(state),
     Next |-> PyStr(state.Next),
     NextInput |-> PyStr("Scalar")]

\* sf.py:76-80
TaskNextConfig(state, next_entry) ==
    [Name |-> get_state_unum_function_name(state),
     Next |-> PyStr(next_entry.Name),
     NextInput |-> PyStr("Scalar")]

\* The Task returning its own config as the exit function.
TaskNextExit_own(config, next_state) == config

\* The exit function a non-terminal Task returns: its successor's.
TaskNextExit(config, next_state) == next_state.exit

TaskNextReturn(t) ==
    /\ Running(t)
    /\ LET f == Top(t)
           state == StateOf(f)
           next_state == ret[t]
           h == Len(heap[t]) + 1
       IN  /\ f.pc = "task_next"
           /\ next_state # NoRet /\ next_state # PyNone
           /\ heap' = [heap EXCEPT ![t] =
                        Append(@, TaskNextConfig(state, heap[t][next_state.entry]))]
           /\ Return(t, RetVal(f.state_name, <<h>> \o next_state.ir, h,
                               TaskNextExit(h, next_state)))
    /\ UNCHANGED <<outside, unum_map_counter, unum_parallel_counter, workflow, results>>

(***************************************************************************)
(* _translate_state_machine, Map (sf.py:94-139).  The iterator is lowered  *)
(* first; the counter is then read for the entry name (99), read for the   *)
(* sink name (105), and read and written back incremented (107).           *)
(***************************************************************************)
UnumMapName(counter) == "UnumMap" \o ToString(counter)
UnumMapSinkName(counter) == "UnumMapSink" \o ToString(counter)

\* sf.py:98-102
UnumMapConfig(counter, iterator_entry) ==
    [Name |-> UnumMapName(counter),
     Next |-> PyStr(iterator_entry.Name),
     NextInput |-> PyStr("Map")]

\* The Map's fan-in enumerated the way a Parallel's is.
MapFanIn_enumerated(exit_name) ==
    PyDict("Fan-in" :> PyDict([Values |-> PyList(<<exit_name \o "-unumIndex-0">>)]))

\* sf.py:110-116: the NextInput of the iterator's exit function.
MapFanIn(exit_name) ==
    PyDict("Fan-in" :> PyDict([Values |-> PyList(<<exit_name \o "-unumIndex-*">>)]))

\* config["Next"] = target; config["NextInput"] = next_input
\* The config left as it is, without the continuation.
SetNext_nothing(config, target, next_input) == config

\* sf.py:109-116, 159-164, 124-125, 170-171: config["Next"] = target and
\* config["NextInput"] = next_input.
SetNext(config, target, next_input) ==
    SetKey(SetKey(config, "Next", PyStr(target)), "NextInput", next_input)

MapIterator(t) ==
    /\ Running(t)
    /\ LET f == Top(t)
           state == StateOf(f)
       IN  /\ f.pc = "start"
           /\ state.Type = "Map"
           /\ Call(t, [f EXCEPT !.pc = "map_iterator"],
                   translate_state_machine(state.Iterator))
    /\ UNCHANGED <<outside, unum_map_counter, unum_parallel_counter, workflow, heap, results>>

MapEntry(t) ==
    /\ Running(t)
    /\ LET f == Top(t)
           iterator == ret[t]
           h == Len(heap[t]) + 1
       IN  /\ f.pc = "map_iterator"
           /\ iterator # NoRet /\ iterator # PyNone
           /\ heap' = [heap EXCEPT ![t] =
                Append(@, UnumMapConfig(unum_map_counter, heap[t][iterator.entry]))]
           /\ Goto(t, [f EXCEPT !.iterator = iterator, !.barrier = h, !.pc = "map_sink"])
           /\ ret' = [ret EXCEPT ![t] = NoRet]
    /\ UNCHANGED <<outside, unum_map_counter, unum_parallel_counter, workflow, results>>

MapSink(t) ==
    /\ Running(t)
    /\ LET f == Top(t)
           h == Len(heap[t]) + 1
       IN  /\ f.pc = "map_sink"
           /\ heap' = [heap EXCEPT ![t] =
                Append(@, [Name |-> UnumMapSinkName(unum_map_counter)])]
           /\ Goto(t, [f EXCEPT !.sink = h, !.pc = "map_load"])
    /\ UNCHANGED <<outside, unum_map_counter, unum_parallel_counter, workflow, ret, results>>

MapLoad(t) ==
    /\ Running(t)
    /\ LET f == Top(t)
       IN  /\ f.pc = "map_load"
           /\ Goto(t, [f EXCEPT !.loaded = unum_map_counter, !.pc = "map_store"])
    /\ UNCHANGED <<outside, unum_map_counter, unum_parallel_counter, workflow, ret, heap, results>>

MapStore(t) ==
    /\ Running(t)
    /\ LET f == Top(t)
       IN  /\ f.pc = "map_store"
           /\ unum_map_counter' = f.loaded + 1
           /\ Goto(t, [f EXCEPT !.pc = "map_wire"])
    /\ UNCHANGED <<outside, unum_parallel_counter, workflow, ret, heap, results>>

\* sf.py:109-120
MapWire(t) ==
    /\ Running(t)
    /\ LET f == Top(t)
           exit == f.iterator.exit
       IN  /\ f.pc = "map_wire"
           /\ heap' = [heap EXCEPT ![t][exit] =
                SetNext(@, heap[t][f.sink].Name, MapFanIn(heap[t][exit].Name))]
           /\ Goto(t, [f EXCEPT !.ir = <<f.barrier>> \o f.iterator.ir \o <<f.sink>>,
                                !.pc = "map_wired"])
    /\ UNCHANGED <<outside, unum_map_counter, unum_parallel_counter, workflow, ret, results>>

\* sf.py:122-123 and, with no successor, 133-139.
MapNext(t) ==
    /\ Running(t)
    /\ LET f == Top(t)
           state == StateOf(f)
       IN  /\ f.pc = "map_wired"
           /\ IF "Next" \in DOMAIN state
              THEN Call(t, [f EXCEPT !.pc = "map_next"],
                        NewFrame(state.Next, f.state_machine))
              ELSE Return(t, RetVal(f.state_name, f.ir, f.barrier, f.sink))
    /\ UNCHANGED <<outside, unum_map_counter, unum_parallel_counter, workflow, heap, results>>

\* The Map with a successor wiring its iterator's exit function, which
\* already continues with the sink, to the successor.
MapNextReturn_rewire(t) ==
    /\ Running(t)
    /\ LET f == Top(t)
           next_state == ret[t]
       IN  /\ f.pc = "map_next"
           /\ next_state # NoRet /\ next_state # PyNone
           /\ heap' = [heap EXCEPT ![t][f.iterator.exit] =
                SetNext(@, heap[t][next_state.entry].Name, PyStr("Scalar"))]
           /\ Return(t, RetVal(f.state_name, f.ir \o next_state.ir, f.barrier,
                               next_state.exit))
    /\ UNCHANGED <<outside, unum_map_counter, unum_parallel_counter, workflow, results>>

\* sf.py:124-132: the sink continues with the successor, whose exit function
\* is the Map's.
MapNextReturn(t) ==
    /\ Running(t)
    /\ LET f == Top(t)
           next_state == ret[t]
       IN  /\ f.pc = "map_next"
           /\ next_state # NoRet /\ next_state # PyNone
           /\ heap' = [heap EXCEPT ![t][f.sink] =
                SetNext(@, heap[t][next_state.entry].Name, PyStr("Scalar"))]
           /\ Return(t, RetVal(f.state_name, f.ir \o next_state.ir, f.barrier,
                               next_state.exit))
    /\ UNCHANGED <<outside, unum_map_counter, unum_parallel_counter, workflow, results>>

(***************************************************************************)
(* _translate_state_machine, Parallel (sf.py:142-185).  The branches are   *)
(* lowered first, in order; the counter is then read for the entry name    *)
(* (146), read for the sink name (153), and read and written back          *)
(* incremented (155).                                                      *)
(***************************************************************************)
UnumParallelName(counter) == "UnumParallel" \o ToString(counter)
UnumParallelSinkName(counter) == "UnumParallelSink" \o ToString(counter)

\* The entry function listing the branches last to first.
UnumParallelConfig_reversed(counter, branch_entries) ==
    [Name |-> UnumParallelName(counter),
     Next |-> PyList([i \in 1..Len(branch_entries) |->
                        branch_entries[Len(branch_entries) + 1 - i].Name]),
     NextInput |-> PyStr("Scalar")]

\* sf.py:145-149
UnumParallelConfig(counter, branch_entries) ==
    [Name |-> UnumParallelName(counter),
     Next |-> PyList([i \in 1..Len(branch_entries) |-> branch_entries[i].Name]),
     NextInput |-> PyStr("Scalar")]

\* The list with the branches counted from 1.
parallel_fan_in_vals_from_one(exits) ==
    [i \in 1..Len(exits) |-> exits[i].Name \o "-unumIndex-" \o ToString(i)]

\* sf.py:156; Python's range(len(branches)) counts from 0.
parallel_fan_in_vals(exits) ==
    [i \in 1..Len(exits) |-> exits[i].Name \o "-unumIndex-" \o ToString(i - 1)]

\* sf.py:159-163
ParallelFanIn(vals) == PyDict("Fan-in" :> PyDict([Values |-> PyList(vals)]))

\* The branches lowered so far, the one that has just returned included.
Collected(t) == IF ret[t] # NoRet THEN Append(Top(t).branches, ret[t]) ELSE Top(t).branches

\* sf.py:143, one element of the list comprehension.
ParallelBranch(t) ==
    /\ Running(t)
    /\ LET f == Top(t)
           state == StateOf(f)
       IN  /\ f.pc \in {"start", "parallel_branches"}
           /\ state.Type = "Parallel"
           /\ Len(Collected(t)) < Len(state.Branches)
           /\ Call(t, [f EXCEPT !.branches = Collected(t), !.pc = "parallel_branches"],
                   translate_state_machine(state.Branches[Len(Collected(t)) + 1]))
    /\ UNCHANGED <<outside, unum_map_counter, unum_parallel_counter, workflow, heap, results>>

ParallelEntry(t) ==
    /\ Running(t)
    /\ LET f == Top(t)
           state == StateOf(f)
           branches == Collected(t)
           h == Len(heap[t]) + 1
       IN  /\ f.pc \in {"start", "parallel_branches"}
           /\ state.Type = "Parallel"
           /\ Len(branches) = Len(state.Branches)
           /\ \A i \in DOMAIN branches : branches[i] # PyNone
           /\ heap' = [heap EXCEPT ![t] =
                Append(@, UnumParallelConfig(unum_parallel_counter,
                    [i \in 1..Len(branches) |-> heap[t][branches[i].entry]]))]
           /\ Goto(t, [f EXCEPT !.branches = branches, !.barrier = h, !.ir = <<h>>,
                                !.pc = "parallel_sink"])
           /\ ret' = [ret EXCEPT ![t] = NoRet]
    /\ UNCHANGED <<outside, unum_map_counter, unum_parallel_counter, workflow, results>>

ParallelSink(t) ==
    /\ Running(t)
    /\ LET f == Top(t)
           h == Len(heap[t]) + 1
       IN  /\ f.pc = "parallel_sink"
           /\ heap' = [heap EXCEPT ![t] =
                Append(@, [Name |-> UnumParallelSinkName(unum_parallel_counter)])]
           /\ Goto(t, [f EXCEPT !.sink = h, !.pc = "parallel_load"])
    /\ UNCHANGED <<outside, unum_map_counter, unum_parallel_counter, workflow, ret, results>>

ParallelLoad(t) ==
    /\ Running(t)
    /\ LET f == Top(t)
       IN  /\ f.pc = "parallel_load"
           /\ Goto(t, [f EXCEPT !.loaded = unum_parallel_counter, !.pc = "parallel_store"])
    /\ UNCHANGED <<outside, unum_map_counter, unum_parallel_counter, workflow, ret, heap, results>>

\* sf.py:155 (the store) and 156.
ParallelStore(t) ==
    /\ Running(t)
    /\ LET f == Top(t)
       IN  /\ f.pc = "parallel_store"
           /\ unum_parallel_counter' = f.loaded + 1
           /\ Goto(t, [f EXCEPT
                !.parallel_fan_in_vals = parallel_fan_in_vals(
                    [i \in 1..Len(f.branches) |-> heap[t][f.branches[i].exit]]),
                !.i = 1, !.pc = "parallel_wire"])
    /\ UNCHANGED <<outside, unum_map_counter, workflow, ret, heap, results>>

\* sf.py:157-164, one iteration of the loop.
ParallelWire(t) ==
    /\ Running(t)
    /\ LET f == Top(t)
           b == f.branches[f.i]
       IN  /\ f.pc = "parallel_wire"
           /\ f.i <= Len(f.branches)
           /\ heap' = [heap EXCEPT ![t][b.exit] =
                SetNext(@, heap[t][f.sink].Name, ParallelFanIn(f.parallel_fan_in_vals))]
           /\ Goto(t, [f EXCEPT !.ir = @ \o b.ir, !.i = @ + 1])
    /\ UNCHANGED <<outside, unum_map_counter, unum_parallel_counter, workflow, ret, results>>

\* sf.py:166-168 and, with no successor, 180-185.
ParallelNext(t) ==
    /\ Running(t)
    /\ LET f == Top(t)
           state == StateOf(f)
           ir == f.ir \o <<f.sink>>
       IN  /\ f.pc = "parallel_wire"
           /\ f.i > Len(f.branches)
           /\ IF "Next" \in DOMAIN state
              THEN Call(t, [f EXCEPT !.ir = ir, !.pc = "parallel_next"],
                        NewFrame(state.Next, f.state_machine))
              ELSE Return(t, RetVal(f.state_name, ir, f.barrier, f.sink))
    /\ UNCHANGED <<outside, unum_map_counter, unum_parallel_counter, workflow, heap, results>>

\* The Parallel with a successor returning its own sink as exit function.
ParallelNextReturn_sink_exit(t) ==
    /\ Running(t)
    /\ LET f == Top(t)
           next_state == ret[t]
       IN  /\ f.pc = "parallel_next"
           /\ next_state # NoRet /\ next_state # PyNone
           /\ heap' = [heap EXCEPT ![t][f.sink] =
                SetNext(@, heap[t][next_state.entry].Name, PyStr("Scalar"))]
           /\ Return(t, RetVal(f.state_name, f.ir \o next_state.ir, f.barrier, f.sink))
    /\ UNCHANGED <<outside, unum_map_counter, unum_parallel_counter, workflow, results>>

\* sf.py:170-178
ParallelNextReturn(t) ==
    /\ Running(t)
    /\ LET f == Top(t)
           next_state == ret[t]
       IN  /\ f.pc = "parallel_next"
           /\ next_state # NoRet /\ next_state # PyNone
           /\ heap' = [heap EXCEPT ![t][f.sink] =
                SetNext(@, heap[t][next_state.entry].Name, PyStr("Scalar"))]
           /\ Return(t, RetVal(f.state_name, f.ir \o next_state.ir, f.barrier,
                               next_state.exit))
    /\ UNCHANGED <<outside, unum_map_counter, unum_parallel_counter, workflow, results>>

(***************************************************************************)
(* main, sf.py:227-234: the template is read and every config of the IR    *)
(* gets its Checkpoint.                                                    *)
(***************************************************************************)
\* The pass without the forcing: every config gets the default.
Checkpoint_default(c, template_default) == template_default

\* The pass forcing every config.
Checkpoint_forced(c, template_default) == TRUE

\* sf.py:231-234
Checkpoint(c, template_default) ==
    IF "NextInput" \in DOMAIN c /\ PyIn("Fan-in", c.NextInput)
    THEN TRUE
    ELSE template_default

\* sf.py:58, 94, 142, 185: the Type is none of the three tested, no branch
\* of the if is taken and the call ends without a return statement.
UnknownType(t) ==
    /\ Running(t)
    /\ Top(t).pc = "start"
    /\ StateOf(Top(t)).Type \notin {"Task", "Map", "Parallel"}
    /\ Return(t, PyNone)
    /\ UNCHANGED <<outside, unum_map_counter, unum_parallel_counter, workflow, heap, results>>

\* What a call has returned is None where it is subscripted: by the Task,
\* Map or Parallel that called it for its successor (sf.py:77, 124, 170), by
\* the Map that called it for its iterator (100), by the Parallel when the
\* list of its branches is complete (147), by main (230).
Subscripted(t) ==
    IF phase[t] = "lowered" THEN ret[t] = PyNone
    ELSE IF ~Running(t) THEN FALSE
    ELSE IF Top(t).pc \in {"task_next", "map_iterator", "map_next", "parallel_next"}
    THEN ret[t] = PyNone
    ELSE IF Top(t).pc \in {"start", "parallel_branches"}
            /\ StateOf(Top(t)).Type = "Parallel"
    THEN /\ Len(Collected(t)) = Len(StateOf(Top(t)).Branches)
         /\ \E i \in DOMAIN Collected(t) : Collected(t)[i] = PyNone
    ELSE FALSE

\* TypeError: 'NoneType' object is not subscriptable.
NoneRaise(t) ==
    /\ Subscripted(t)
    /\ Raise(t, "TypeError")
    /\ UNCHANGED <<outside, unum_map_counter, unum_parallel_counter, workflow, heap, results>>

\* The IR as main prints it: the list of the dicts themselves.
IRList(h, ir) == [i \in 1..Len(ir) |-> h[ir[i]]]

CheckpointPass(t) ==
    /\ phase[t] = "lowered"
    /\ ret[t] # PyNone
    /\ \E template_default \in BOOLEAN :
        LET ir == ret[t].ir
            marked == [h \in DOMAIN heap[t] |->
                        IF \E i \in 1..Len(ir) : ir[i] = h
                        THEN SetKey(heap[t][h], "Checkpoint",
                                    Checkpoint(heap[t][h], template_default))
                        ELSE heap[t][h]]
        IN  /\ heap' = [heap EXCEPT ![t] = marked]
            /\ results' = [results EXCEPT ![t] =
                            Append(@, [ir |-> IRList(marked, ir),
                                       Checkpoint |-> template_default])]
    /\ phase' = [phase EXCEPT ![t] = "done"]
    /\ UNCHANGED <<outside, unum_map_counter, unum_parallel_counter, workflow, stack, ret>>

\* sf.py:227-234: the template cannot be read, or has no Globals.Checkpoint
\* for the first config without a Fan-in; main ends before it prints.
CheckpointRaise(t) ==
    /\ phase[t] = "lowered"
    /\ phase' = [phase EXCEPT ![t] = "failed"]
    /\ UNCHANGED <<outside, unum_map_counter, unum_parallel_counter, workflow, stack,
                   ret, heap, results>>

(***************************************************************************)
(* One whole call of _translate_state_machine with nothing else running    *)
(* in between: the dicts it returns and the heap and counters it leaves.   *)
(* This is the compilation "run alone" that the concurrent one is compared *)
(* with.                                                                   *)
(***************************************************************************)
RECURSIVE Lowering(_, _, _, _, _)
\* sf.py:143: the branches from the i-th on, in order; `done` are the
\* values returned so far.
RECURSIVE LoweringOfBranches(_, _, _, _, _, _)
LoweringOfBranches(branches, i, done, h, map_counter, parallel_counter) ==
    IF i > Len(branches)
    THEN [branches |-> done, heap |-> h, map_counter |-> map_counter,
          parallel_counter |-> parallel_counter]
    ELSE LET b == Lowering(branches[i].StartAt, branches[i], h, map_counter,
                           parallel_counter)
         IN  LoweringOfBranches(branches, i + 1, Append(done, b), b.heap,
                                b.map_counter, b.parallel_counter)

\* sf.py:157-164: the exits of the branches from the i-th on get their Fan-in.
RECURSIVE WireBranches(_, _, _, _, _)
WireBranches(h, branches, i, sink_name, vals) ==
    IF i > Len(branches) THEN h
    ELSE WireBranches([h EXCEPT ![branches[i].exit] =
                            SetNext(@, sink_name, ParallelFanIn(vals))],
                      branches, i + 1, sink_name, vals)

RECURSIVE ConcatIR(_, _)
ConcatIR(branches, i) ==
    IF i > Len(branches) THEN <<>> ELSE branches[i].ir \o ConcatIR(branches, i + 1)

LoweringResult(state_name, ir, entry, exit, h, map_counter, parallel_counter) ==
    [state_name |-> state_name, ir |-> ir, entry |-> entry, exit |-> exit,
     heap |-> h, map_counter |-> map_counter, parallel_counter |-> parallel_counter]

\* sf.py:122-139 and 168-185: the construct [barrier .. sink] followed by
\* its successor, if it has one.
LoweringOfNext(state_name, state_machine, ir, barrier, sink, h, map_counter, parallel_counter) ==
    LET state == state_machine.States[state_name]
    IN  IF "Next" \in DOMAIN state
        THEN LET next_state == Lowering(state.Next, state_machine, h, map_counter,
                                        parallel_counter)
             IN  LoweringResult(state_name, ir \o next_state.ir, barrier, next_state.exit,
                    [next_state.heap EXCEPT ![sink] =
                        SetNext(@, next_state.heap[next_state.entry].Name,
                                PyStr("Scalar"))],
                    next_state.map_counter, next_state.parallel_counter)
        ELSE LoweringResult(state_name, ir, barrier, sink, h, map_counter, parallel_counter)

Lowering(state_name, state_machine, h, map_counter, parallel_counter) ==
    LET state == state_machine.States[state_name]
    IN  CASE state.Type = "Task" /\ "End" \in DOMAIN state /\ state.End = TRUE ->
                LET c == Len(h) + 1
                IN  LoweringResult(state_name, <<c>>, c, c, Append(h, TaskEndConfig(state)),
                             map_counter, parallel_counter)
          [] state.Type = "Task" /\ ~("End" \in DOMAIN state /\ state.End = TRUE)
                /\ "Next" \in DOMAIN state ->
                LET next_state == Lowering(state.Next, state_machine, h, map_counter,
                                           parallel_counter)
                    c == Len(next_state.heap) + 1
                IN  LoweringResult(state_name, <<c>> \o next_state.ir, c,
                        TaskNextExit(c, next_state),
                        Append(next_state.heap,
                               TaskNextConfig(state, next_state.heap[next_state.entry])),
                        next_state.map_counter, next_state.parallel_counter)
          [] state.Type = "Map" ->
                LET iterator == Lowering(state.Iterator.StartAt, state.Iterator, h,
                                         map_counter, parallel_counter)
                    n == iterator.map_counter
                    barrier == Len(iterator.heap) + 1
                    sink == barrier + 1
                    h1 == iterator.heap
                            \o <<UnumMapConfig(n, iterator.heap[iterator.entry]),
                                 [Name |-> UnumMapSinkName(n)]>>
                    h2 == [h1 EXCEPT ![iterator.exit] =
                            SetNext(@, h1[sink].Name, MapFanIn(h1[iterator.exit].Name))]
                IN  LoweringOfNext(state_name, state_machine,
                        <<barrier>> \o iterator.ir \o <<sink>>, barrier, sink, h2,
                        n + 1, iterator.parallel_counter)
          [] state.Type = "Parallel" ->
                LET bs == LoweringOfBranches(state.Branches, 1, <<>>, h, map_counter,
                                             parallel_counter)
                    branches == bs.branches
                    n == bs.parallel_counter
                    barrier == Len(bs.heap) + 1
                    sink == barrier + 1
                    h1 == bs.heap
                            \o <<UnumParallelConfig(n,
                                    [i \in 1..Len(branches) |-> bs.heap[branches[i].entry]]),
                                 [Name |-> UnumParallelSinkName(n)]>>
                    vals == parallel_fan_in_vals(
                                [i \in 1..Len(branches) |-> h1[branches[i].exit]])
                    h2 == WireBranches(h1, branches, 1, h1[sink].Name, vals)
                IN  LoweringOfNext(state_name, state_machine,
                        <<barrier>> \o ConcatIR(branches, 1) \o <<sink>>, barrier, sink,
                        h2, bs.map_counter, n + 1)

\* main run alone in a fresh process (counters 0): the IR it prints.
AloneIR(state_machine, template_default) ==
    LET r == Lowering(state_machine.StartAt, state_machine, <<>>, 0, 0)
    IN  [i \in 1..Len(r.ir) |->
            SetKey(r.heap[r.ir[i]], "Checkpoint",
                   Checkpoint(r.heap[r.ir[i]], template_default))]

(***************************************************************************)
(* The specifications.  Spec: one process that compiles its workflow, and  *)
(* compiles it again.  SpecConc: two compilations of independent workflows *)
(* interleaved in one process, one thread each.                            *)
(***************************************************************************)
\* A step of _translate_state_machine.
Lower(t) ==
    \/ TaskEnd(t)
    \/ TaskNext(t)
    \/ TaskNextReturn(t)
    \/ MapIterator(t)
    \/ MapEntry(t)
    \/ MapSink(t)
    \/ MapLoad(t)
    \/ MapStore(t)
    \/ MapWire(t)
    \/ MapNext(t)
    \/ MapNextReturn(t)
    \/ ParallelBranch(t)
    \/ ParallelEntry(t)
    \/ ParallelSink(t)
    \/ ParallelLoad(t)
    \/ ParallelStore(t)
    \/ ParallelWire(t)
    \/ ParallelNext(t)
    \/ ParallelNextReturn(t)

\* A step of one compilation: main's call, a step of the lowering, or the
\* checkpoint pass.
Step(t) ==
    \/ Compile(t)
    \/ Lower(t)
    \/ CheckpointPass(t)

InitThreads(T) ==
    /\ unum_map_counter = 0
    /\ unum_parallel_counter = 0
    /\ phase = [t \in T |-> "idle"]
    /\ stack = [t \in T |-> <<>>]
    /\ ret = [t \in T |-> NoRet]
    /\ heap = [t \in T |-> <<>>]
    /\ results = [t \in T |-> <<>>]

\* sf.py run as a script: unum_cli is not running.
NoCli == [stage |-> "off"]

Init ==
    /\ InitThreads({1})
    /\ arn_file_readable = TRUE
    /\ cli = NoCli
    /\ workflow \in [{1} -> Workflows]

Next == \E t \in {1} : Step(t) \/ Recompile(t)

Spec == Init /\ [][Next]_vars

InitConc ==
    /\ InitThreads({1, 2})
    /\ arn_file_readable = TRUE
    /\ cli = NoCli
    /\ workflow \in {w \in [{1, 2} -> ConcWorkflows(1) \cup ConcWorkflows(2)] :
                        \A t \in {1, 2} : w[t] \in ConcWorkflows(t)}

NextConc == \E t \in {1, 2} : Step(t)

\* sf.py run on a workflow file that may be malformed, in a directory whose
\* function-arn.yaml may be unreadable, with a template that may lack the
\* default.
InitErr ==
    /\ InitThreads({1})
    /\ arn_file_readable \in BOOLEAN
    /\ cli = NoCli
    /\ workflow \in [{1} -> ErrWorkflows]

\* The steps only a malformed input, or an unreadable file, leads to.
Fail(t) ==
    \/ KeyErrorRaise(t)
    \/ ResolveRaise(t)
    \/ TaskRaise(t)
    \/ CheckpointRaise(t)
    \/ UnknownType(t)
    \/ NoneRaise(t)

NextErr == \E t \in {1} : Step(t) \/ Fail(t)

SpecErr == InitErr /\ [][NextErr]_vars

\* One compilation of a workflow that may have a cycle.
InitCyc ==
    /\ InitThreads({1})
    /\ arn_file_readable = TRUE
    /\ cli = NoCli
    /\ workflow \in [{1} -> CycWorkflows]

NextCyc == \E t \in {1} : Step(t) \/ RecursionRaise(t)

SpecCyc == InitCyc /\ [][NextCyc]_vars

(***************************************************************************)
(* unum_cli compile (src/unum_cli/unum_cli.py).  main parses the command   *)
(* line, unum_compile loads the workflow and the template, calls the       *)
(* frontend's compile and writes one unum_config.json per config of the    *)
(* IR.  cli holds                                                          *)
(*   stage            args, load, compile, emit, done; usage_error, failed *)
(*   optimize         <<>> without -o, <<name>> with -o name               *)
(*   app_template     the template file, parsed                            *)
(*   unwritable       the directories that are not there and that          *)
(*                    os.makedirs cannot make: open(..., 'w') fails in     *)
(*                    them                                                 *)
(*   i                the position of the loop of lines 907-926 in the IR  *)
(*   update_template  the flag of lines 906, 912                           *)
(*   written          the files written so far, in order                   *)
(*   error            the message the run ends with                        *)
(***************************************************************************)
\* unum_cli.py:1148, choices=['trim']
Choices == {"trim"}

\* Every name taken for a supported one.
Accepted_any(optimize) == TRUE

\* argparse on -o/--optimize: absent, or one of the choices.
Accepted(optimize) == optimize = <<>> \/ optimize[1] \in Choices

\* argparse's message for a value outside the choices.
InvalidChoice(name) ==
    "argument -o/--optimize: invalid choice: '" \o name \o "' (choose from 'trim')"

CliUnchanged ==
    UNCHANGED <<unum_map_counter, unum_parallel_counter, phase, workflow, stack, ret,
                heap, results, arn_file_readable>>

\* unum_cli.py:1190: parser.parse_args() exits with the usage error, or
\* main goes on to unum_compile (1194-1195).
CliParse(t) ==
    /\ cli.stage = "args"
    /\ cli' = IF Accepted(cli.optimize)
              THEN [cli EXCEPT !.stage = "load"]
              ELSE [cli EXCEPT !.stage = "usage_error",
                               !.error = InvalidChoice(cli.optimize[1])]
    /\ CliUnchanged

\* unum_cli.py:888-900: the workflow definition and the template are read.
CliLoad(t) ==
    /\ cli.stage = "load"
    /\ cli' = [cli EXCEPT !.stage = "compile"]
    /\ CliUnchanged

\* unum_cli.py:891-893, 898-900: one of the two cannot be read.
CliLoadRaise(t) ==
    /\ cli.stage = "load"
    /\ cli' = [cli EXCEPT !.stage = "failed", !.error = "Exception"]
    /\ CliUnchanged

\* unum_cli.py:902: the call of fc.compile.
CliCompile(t) ==
    /\ cli.stage = "compile"
    /\ phase[t] = "cli"
    /\ StartLowering(t)

\* frontend.step_functions.compile(state_machine, app_template, optimize):
\* the lowering, then the checkpoint pass; what an optimization does to the
\* IR is left out.
compile(t) ==
    \/ Lower(t)
    \/ CheckpointPass(t)
    \/ Fail(t)

\* unum_cli.py:902-906: compile has returned the IR.
CliReturn(t) ==
    /\ cli.stage = "compile"
    /\ phase[t] = "done"
    /\ cli' = [cli EXCEPT !.stage = "emit", !.i = 1, !.update_template = FALSE]
    /\ CliUnchanged

\* unum_cli.py:902: compile has raised; unum_compile and main catch
\* nothing, __main__ prints the error.
CliRaised(t) ==
    /\ cli.stage = "compile"
    /\ phase[t] = "failed"
    /\ cli' = [cli EXCEPT !.stage = "failed", !.error = "Exception"]
    /\ CliUnchanged

\* The IR unum_compile walks.
CliIR(t) == results[t][Len(results[t])].ir

\* unum_cli.py:908: f['Name'] in app_template['Functions']
Declared(app_template, f) == f.Name \in DOMAIN app_template.Functions

\* unum_cli.py:908-911
FunctionDir(app_template, f) ==
    IF Declared(app_template, f)
    THEN ".unum/" \o app_template.Functions[f.Name].Properties.CodeUri
    ELSE ".unum/" \o f.Name

\* Only the template's errors end the run: the file is taken for written
\* whether or not its directory could be made.
EmitRaises_template_only(c, f) ==
    IF "Functions" \notin DOMAIN c.app_template THEN TRUE
    ELSE /\ Declared(c.app_template, f)
         /\ LET fn == c.app_template.Functions[f.Name]
            IN  IF "Properties" \in DOMAIN fn
                THEN "CodeUri" \notin DOMAIN fn.Properties
                ELSE TRUE

\* unum_cli.py:908-909, 914-926: what raises while f is emitted: a template
\* without Functions, a declared function without Properties.CodeUri, a
\* directory that cannot be made (the exception of os.makedirs is logged
\* only, 919-920) so that the file cannot be opened in it (923, 925-926).
EmitRaises(c, f) ==
    IF "Functions" \notin DOMAIN c.app_template THEN TRUE
    ELSE IF /\ Declared(c.app_template, f)
            /\ LET fn == c.app_template.Functions[f.Name]
               IN  IF "Properties" \in DOMAIN fn
                   THEN "CodeUri" \notin DOMAIN fn.Properties
                   ELSE TRUE
         THEN TRUE
         ELSE FunctionDir(c.app_template, f) \in c.unwritable

\* unum_cli.py:923, os.path.join(function_dir, 'unum_config.json')
PathJoin(dir, file) ==
    IF SubSeq(dir, Len(dir), Len(dir)) = "/" THEN dir \o file ELSE dir \o "/" \o file

\* unum_cli.py:907-926, one turn of the loop: the config is written.
CliEmit(t) ==
    /\ cli.stage = "emit"
    /\ cli.i <= Len(CliIR(t))
    /\ LET f == CliIR(t)[cli.i]
       IN  /\ ~EmitRaises(cli, f)
           /\ cli' = [cli EXCEPT
                        !.update_template = @ \/ ~Declared(cli.app_template, f),
                        !.written = Append(@, [path |-> PathJoin(FunctionDir(cli.app_template, f),
                                                                 "unum_config.json"),
                                               content |-> f]),
                        !.i = @ + 1]
    /\ CliUnchanged

\* unum_cli.py:907-926, one turn of the loop: an exception ends the run.
CliEmitRaise(t) ==
    /\ cli.stage = "emit"
    /\ cli.i <= Len(CliIR(t))
    /\ EmitRaises(cli, CliIR(t)[cli.i])
    /\ cli' = [cli EXCEPT !.stage = "failed", !.error = "Exception"]
    /\ CliUnchanged

\* unum_cli.py:928-934: the loop is over; `if update_template: pass`.
CliEmitEnd(t) ==
    /\ cli.stage = "emit"
    /\ cli.i > Len(CliIR(t))
    /\ cli' = [cli EXCEPT !.stage = "done"]
    /\ CliUnchanged

\* A function of unum-template.yaml with its code directory.
Fn(name) == [Properties |-> [CodeUri |-> name \o "/", Runtime |-> "python3.8"]]

\* Templates: both functions declared; f2 not declared; f2 declared without
\* CodeUri; no Functions at all.
AppTemplates ==
    {[Functions |-> ("f1" :> Fn("f1") @@ "f2" :> Fn("f2"))],
     [Functions |-> ("f1" :> Fn("f1"))],
     [Functions |-> ("f1" :> Fn("f1")
                     @@ "f2" :> [Properties |-> [Runtime |-> "python3.8"]])],
     [Globals |-> [Checkpoint |-> TRUE]]}

CliWorkflows == ErrWorkflowsOfSize(CliMaxNodes)

InitCli ==
    /\ unum_map_counter = 0
    /\ unum_parallel_counter = 0
    /\ phase = [t \in {1} |-> "cli"]
    /\ stack = [t \in {1} |-> <<>>]
    /\ ret = [t \in {1} |-> NoRet]
    /\ heap = [t \in {1} |-> <<>>]
    /\ results = [t \in {1} |-> <<>>]
    /\ arn_file_readable = TRUE
    /\ workflow \in [{1} -> CliWorkflows]
    /\ \E optimize \in {<<>>, <<"trim">>, <<"fuse">>}, app_template \in AppTemplates,
          unwritable \in {{}, {".unum/UnumMapSink0", ".unum/f2/"}} :
            cli = [stage |-> "args", optimize |-> optimize,
                   app_template |-> app_template, unwritable |-> unwritable,
                   i |-> 0, update_template |-> FALSE, written |-> <<>>, error |-> ""]

NextCli ==
    \E t \in {1} :
        \/ CliParse(t)
        \/ CliLoad(t)
        \/ CliLoadRaise(t)
        \/ CliCompile(t)
        \/ compile(t)
        \/ CliReturn(t)
        \/ CliRaised(t)
        \/ CliEmit(t)
        \/ CliEmitRaise(t)
        \/ CliEmitEnd(t)

SpecCli == InitCli /\ [][NextCli]_vars

SpecConc == InitConc /\ [][NextConc]_vars

(***************************************************************************)
(* unum_cli deploy (src/unum_cli/unum_cli.py, deploy_sam).  cli holds      *)
(*   stage              where deploy_sam stands                            *)
(*   AWS_PROFILE        whether the environment variable is set            *)
(*   template           the unum template, parsed, or NoFile               *)
(*   platform_template  the SAM template, parsed, or NoFile                *)
(*   arn_file           whether function-arn.yaml is there now             *)
(*   arn_at_start       whether it was there when deploy_sam was called    *)
(*   build              .aws-sam/build: NoBuild, or what each entry of the *)
(*                      directory is                                       *)
(*   stack_deployed     whether the CloudFormation stack exists            *)
(*   first_deploy       the local of lines 461-470                         *)
(*   sam_output         what the last sam deploy wrote                     *)
(*   i                  the position of the loop of lines 488-494          *)
(*   trace              the calls made so far, in order                    *)
(*   error              the exception the run ends with                    *)
(***************************************************************************)
NoFile == [no_file |-> TRUE]
NoBuild == [no_build |-> TRUE]

\* A directory of .aws-sam/build with its files, and a plain file.
Dir(files) == [dir |-> TRUE, files |-> files]
File == [dir |-> FALSE, files |-> {}]

\* unum_cli.py:645-650
expected_files_list == {"app.py", "unum.py", "ds.py", "unum_config.json"}

\* str.endswith
endswith(s, suffix) ==
    /\ Len(s) >= Len(suffix)
    /\ SubSeq(s, Len(s) - Len(suffix) + 1, Len(s)) = suffix

\* unum_cli.py:627, the entries of .aws-sam/build that end with Function
built_functions(build) == {d \in DOMAIN build : endswith(d, "Function")}

\* unum_cli.py:632, the keys of the template's Resources
template_resources(platform_template) ==
    {platform_template.Resources[k].Name : k \in DOMAIN platform_template.Resources}

\* unum_cli.py:652-660 on one built function: os.listdir of a plain file
\* raises, a directory is checked for the expected files.
CheckFunction(build, f) ==
    IF ~build[f].dir THEN "NotADirectoryError"
    ELSE IF expected_files_list \subseteq build[f].files THEN "True"
    ELSE "False"

\* unum_cli.py:601-661.  os.listdir gives the entries in no fixed order and
\* the loop stops at the first entry that is not right, so the result is any
\* of the results of the entries that are not right.
validate_sam_build_artifacts(platform_template, build) ==
    IF build = NoBuild THEN {"False"}
    ELSE IF ~(built_functions(build) \subseteq template_resources(platform_template))
    THEN {"False"}
    ELSE LET bad == {CheckFunction(build, f) : f \in built_functions(build)} \ {"True"}
         IN  IF bad = {} THEN {"True"} ELSE bad

\* shutil.copy('function-arn.yaml', dst): into dst when it is a directory,
\* onto dst otherwise.
Copy(build, dst) ==
    IF dst \in DOMAIN build
    THEN IF build[dst].dir
         THEN [build EXCEPT ![dst].files = @ \cup {"function-arn.yaml"}]
         ELSE build
    ELSE [d \in DOMAIN build \cup {dst} |-> IF d = dst THEN File ELSE build[d]]

\* unum_cli.py:515 with the flag ignored.
RollsBack_always(first_deploy) == TRUE

\* unum_cli.py:515, if first_deploy:
RollsBack(first_deploy) == first_deploy = TRUE

\* The run ends with an exception.
DeployRaise(exception) ==
    cli' = [cli EXCEPT !.stage = "failed", !.error = exception]

\* unum_cli.py:552-574: sam deploy fails, or succeeds and the stack is there.
\* Its stdout lists the functions under Outputs when the stack was made by
\* this template.
SamOutputs == {<<>>, <<"Outputs", "Hello">>, <<"Outputs", "Hello", "World">>}

\* unum_cli.py:406-408
DeployProfile(t) ==
    /\ cli.stage = "profile"
    /\ IF cli.AWS_PROFILE
       THEN cli' = [cli EXCEPT !.stage = "template"]
       ELSE DeployRaise("OSError: Environment variable $AWS_PROFILE must exist")
    /\ CliUnchanged

\* unum_cli.py:411-420
DeployTemplate(t) ==
    /\ cli.stage = "template"
    /\ IF cli.template = NoFile THEN DeployRaise("FileNotFoundError")
       ELSE IF "Globals" \notin DOMAIN cli.template THEN DeployRaise("KeyError: 'Globals'")
       ELSE cli' = [cli EXCEPT !.stage = "platform_template"]
    /\ CliUnchanged

\* unum_cli.py:423-432
DeployPlatformTemplate(t) ==
    /\ cli.stage = "platform_template"
    /\ IF cli.platform_template = NoFile THEN DeployRaise("FileNotFoundError")
       ELSE cli' = [cli EXCEPT !.stage = "isfile"]
    /\ CliUnchanged

\* unum_cli.py:461-474: with function-arn.yaml missing, the trial sam deploy.
DeployTrial(t) ==
    /\ cli.stage = "isfile"
    /\ IF cli.arn_file
       THEN cli' = [cli EXCEPT !.stage = "copy", !.first_deploy = FALSE,
                               !.trace = Append(@, "isfile")]
       ELSE \E ok \in BOOLEAN, sam_output \in SamOutputs :
              cli' = IF ok
                     THEN [cli EXCEPT !.stage = "mapping", !.first_deploy = TRUE,
                                      !.stack_deployed = TRUE,
                                      !.sam_output = sam_output,
                                      !.trace = @ \o <<"isfile", "sam_deploy">>]
                     ELSE [cli EXCEPT !.stage = "failed", !.first_deploy = TRUE,
                                      !.trace = @ \o <<"isfile", "sam_deploy">>,
                                      !.error = "OSError: Failed to deploy to AWS"]
    /\ CliUnchanged

\* unum_cli.py:317-360, called at 480: the Outputs of the deployment are
\* read until there is one ARN for each function of the unum template, then
\* function-arn.yaml is written.
create_function_arn_mapping(t) ==
    /\ cli.stage = "mapping"
    /\ LET sam_stdout == cli.sam_output
           called == [cli EXCEPT !.trace = Append(@, "create_function_arn_mapping")]
       IN  cli' = IF sam_stdout = <<>>
                  THEN [called EXCEPT !.stage = "failed",
                            !.error = "OSError: SAM stack with the same name already exists"]
                  ELSE IF Len(sam_stdout) - 1 < Cardinality(cli.template.Functions)
                  THEN [called EXCEPT !.stage = "failed", !.error = "IndexError"]
                  ELSE [called EXCEPT !.stage = "copy", !.arn_file = TRUE]
    /\ CliUnchanged

\* unum_cli.py:488-494, one round of the loop
DeployCopy(t) ==
    /\ cli.stage = "copy"
    /\ cli.i < Len(cli.platform_template.Resources)
    /\ LET f == cli.platform_template.Resources[cli.i + 1]
       IN  cli' = IF f.Type # "AWS::Serverless::Function"
                  THEN [cli EXCEPT !.i = @ + 1]
                  ELSE IF cli.build = NoBuild \/ ~cli.arn_file
                  THEN [cli EXCEPT !.stage = "failed", !.error = "FileNotFoundError"]
                  ELSE [cli EXCEPT !.i = @ + 1, !.build = Copy(@, f.Name)]
    /\ CliUnchanged

\* unum_cli.py:511-512 and 539: the artifacts are checked when the loop is
\* over.
DeployValidate(t) ==
    /\ cli.stage = "copy"
    /\ cli.i = Len(cli.platform_template.Resources)
    /\ \E valid \in validate_sam_build_artifacts(cli.platform_template, cli.build) :
         cli' = IF valid = "True"
                THEN [cli EXCEPT !.stage = "deploy", !.trace = Append(@, "valid")]
                ELSE IF valid = "False"
                THEN [cli EXCEPT !.stage = "invalid", !.trace = Append(@, "invalid")]
                ELSE [cli EXCEPT !.stage = "failed", !.error = valid]
    /\ CliUnchanged

\* unum_cli.py:436-459, called at 517: function-arn.yaml is removed, and the
\* stack is deleted when describe-stacks finds it; a delete-stack that fails
\* is logged and leaves the stack.
rollback_first_deployment(t) ==
    /\ cli.stage = "invalid"
    /\ RollsBack(cli.first_deploy)
    /\ \E deleted \in BOOLEAN :
         cli' = [cli EXCEPT !.stage = "raise", !.arn_file = FALSE,
                            !.stack_deployed = @ /\ ~deleted,
                            !.trace = Append(@, "rollback_first_deployment")]
    /\ CliUnchanged

\* unum_cli.py:519, after the rollback or without it
DeployInvalid(t) ==
    /\ \/ cli.stage = "raise"
       \/ cli.stage = "invalid" /\ ~RollsBack(cli.first_deploy)
    /\ DeployRaise("ValueError: Invalid build artifacts")
    /\ CliUnchanged

\* unum_cli.py:539-548
DeployFinal(t) ==
    /\ cli.stage = "deploy"
    /\ \E ok \in BOOLEAN, sam_output \in SamOutputs :
         cli' = IF ok
                THEN [cli EXCEPT !.stage = "done", !.stack_deployed = TRUE,
                                 !.sam_output = sam_output,
                                 !.trace = Append(@, "sam_deploy")]
                ELSE [cli EXCEPT !.stage = "failed",
                                 !.trace = Append(@, "sam_deploy"),
                                 !.error = "OSError: Failed to deploy to AWS"]
    /\ CliUnchanged

DeployTemplates ==
    {NoFile,
     [Functions |-> {"Hello"}],
     [Globals |-> [ApplicationName |-> "app"], Functions |-> {"Hello"}],
     [Globals |-> [ApplicationName |-> "app"], Functions |-> {"Hello", "World"}]}

DeployPlatformTemplates ==
    {NoFile,
     [Resources |-> <<>>],
     [Resources |-> <<[Name |-> "HelloFunction", Type |-> "AWS::Serverless::Function"]>>],
     [Resources |-> <<[Name |-> "HelloFunction", Type |-> "AWS::Serverless::Function"],
                      [Name |-> "Table", Type |-> "AWS::DynamoDB::Table"],
                      [Name |-> "WorldFunction", Type |-> "AWS::Serverless::Function"]>>]}

DeployBuilds ==
    {NoBuild,
     <<>>,
     "HelloFunction" :> Dir(expected_files_list),
     "HelloFunction" :> Dir({"app.py"}),
     "OtherFunction" :> Dir(expected_files_list),
     "HelloFunction" :> Dir(expected_files_list) @@ "WorldFunction" :> Dir({"app.py"}),
     "HelloFunction" :> Dir(expected_files_list)
        @@ "WorldFunction" :> Dir(expected_files_list)}

InitDeploy ==
    /\ unum_map_counter = 0
    /\ unum_parallel_counter = 0
    /\ phase = [t \in {1} |-> "cli"]
    /\ workflow = [t \in {1} |-> <<>>]
    /\ stack = [t \in {1} |-> <<>>]
    /\ ret = [t \in {1} |-> NoRet]
    /\ heap = [t \in {1} |-> <<>>]
    /\ results = [t \in {1} |-> <<>>]
    /\ arn_file_readable = TRUE
    /\ \E AWS_PROFILE \in BOOLEAN, template \in DeployTemplates,
          platform_template \in DeployPlatformTemplates, arn_file \in BOOLEAN,
          build \in DeployBuilds, stack_deployed \in BOOLEAN :
            cli = [stage |-> "profile", AWS_PROFILE |-> AWS_PROFILE,
                   template |-> template, platform_template |-> platform_template,
                   arn_file |-> arn_file, arn_at_start |-> arn_file,
                   build |-> build, stack_deployed |-> stack_deployed,
                   first_deploy |-> FALSE, sam_output |-> <<>>, i |-> 0,
                   trace |-> <<>>, error |-> ""]

NextDeploy ==
    \E t \in {1} :
        \/ DeployProfile(t)
        \/ DeployTemplate(t)
        \/ DeployPlatformTemplate(t)
        \/ DeployTrial(t)
        \/ create_function_arn_mapping(t)
        \/ DeployCopy(t)
        \/ DeployValidate(t)
        \/ rollback_first_deployment(t)
        \/ DeployInvalid(t)
        \/ DeployFinal(t)

SpecDeploy == InitDeploy /\ [][NextDeploy]_vars

(***************************************************************************)
(* unum_cli invoke (src/unum_cli/unum_cli.py, invoke_sam).  cli holds      *)
(*   stage             where invoke_sam stands                             *)
(*   AWS_PROFILE       whether the environment variable is set             *)
(*   template          the unum template, parsed, or NoFile                *)
(*   start_function    the local of lines 690-694                          *)
(*   invoked           the functions sam remote invoke was run on          *)
(*   sam_output        what sam remote invoke wrote                        *)
(*   finish_functions  the local of lines 712-716                          *)
(*   i                 the position of the loop of lines 726-740           *)
(*   table             the names of the items of the DynamoDB table        *)
(*   polls             the get_item calls made so far, counted up to       *)
(*                     MaxPolls                                            *)
(*   error             the exception the run ends with                     *)
(***************************************************************************)
MaxPolls == 3

\* stdout of sam remote invoke: a JSON array with the session id at index
\* 1, a JSON array too short for it, or text that is no JSON.
InvokeOutputs == {[json |-> <<"out", "s1">>], [json |-> <<"out">>], [text |-> "Invoking"]}

\* unum_cli.py:729, json.loads(sam_output)[1]; index 1 is the second
\* element.
HasSessionId(sam_output) ==
    IF "json" \in DOMAIN sam_output THEN Len(sam_output.json) >= 2 ELSE FALSE

\* unum_cli.py:729-730, session_id + "/" + f["Name"] + "-output"
function_name(sam_output, f) == sam_output.json[2] \o "/" \o f.Name \o "-output"

\* unum_cli.py:692 and 714: the flag is in Properties and is True.
Flag(function, flag) ==
    IF flag \in DOMAIN function.Properties THEN function.Properties[flag] = TRUE
    ELSE FALSE

\* unum_cli.py:690-694, the first function with Start, or None
select_start_function(template) ==
    LET starts == {k \in DOMAIN template.Functions : Flag(template.Functions[k], "Start")}
    IN  IF starts = {} THEN PyNone
        ELSE PyStr(template.Functions[CHOOSE k \in starts : \A j \in starts : k <= j].Name
                   \o "Function")

RECURSIVE select_finish_functions(_, _)
\* unum_cli.py:712-716, over the first n functions
select_finish_functions(template, n) ==
    IF n = 0 THEN <<>>
    ELSE LET rest == select_finish_functions(template, n - 1)
             f == template.Functions[n]
         IN  IF Flag(f, "Finish") THEN Append(rest, [Name |-> f.Name, Return |-> PyNone])
             ELSE rest

\* unum_cli.py:734-735 with every response taken for one with the item.
ItemIn_any(table, name) == TRUE

\* unum_cli.py:734-735, "Item" in the response of get_item
ItemIn(table, name) == name \in table

\* unum_cli.py:736, f["return"] = response["Item"]["User"]
Returned(f, name) ==
    [Name |-> f.Name, Return |-> f.Return, return |-> PyStr("User of " \o name)]

InvokeRaise(exception) ==
    cli' = [cli EXCEPT !.stage = "failed", !.error = exception]

\* unum_cli.py:673-675
InvokeProfile(t) ==
    /\ cli.stage = "invoke_profile"
    /\ IF cli.AWS_PROFILE
       THEN cli' = [cli EXCEPT !.stage = "invoke_template"]
       ELSE InvokeRaise("OSError: Environment variable $AWS_PROFILE must exist")
    /\ CliUnchanged

\* unum_cli.py:678-687
InvokeTemplate(t) ==
    /\ cli.stage = "invoke_template"
    /\ IF cli.template = NoFile THEN InvokeRaise("FileNotFoundError")
       ELSE IF "Globals" \notin DOMAIN cli.template THEN InvokeRaise("KeyError: 'Globals'")
       ELSE cli' = [cli EXCEPT !.stage = "start"]
    /\ CliUnchanged

\* unum_cli.py:690-699
InvokeStart(t) ==
    /\ cli.stage = "start"
    /\ LET start_function == select_start_function(cli.template)
       IN  IF start_function = PyNone
           THEN InvokeRaise("ValueError: Failed to find the Start function on the unum template")
           ELSE cli' = [cli EXCEPT !.stage = "invoke", !.start_function = start_function]
    /\ CliUnchanged

\* unum_cli.py:702-709 with sam_invoke_wrapper, 748-762
sam_invoke_wrapper(t) ==
    /\ cli.stage = "invoke"
    /\ \E ok \in BOOLEAN, sam_output \in InvokeOutputs :
         cli' = IF ok
                THEN [cli EXCEPT !.stage = "finish", !.sam_output = sam_output,
                                 !.invoked = Append(@, cli.start_function.str)]
                ELSE [cli EXCEPT !.stage = "failed",
                                 !.invoked = Append(@, cli.start_function.str),
                                 !.error = "OSError: Failed to invoke to AWS"]
    /\ CliUnchanged

\* unum_cli.py:712-725 and 741-745: the Finish functions are collected; the
\* run returns when there is none or the datastore is not DynamoDB.
InvokeFinish(t) ==
    /\ cli.stage = "finish"
    /\ LET finish_functions ==
               select_finish_functions(cli.template, Len(cli.template.Functions))
           found == [cli EXCEPT !.finish_functions = finish_functions]
       IN  cli' = IF Len(finish_functions) = 0 THEN [found EXCEPT !.stage = "done"]
                  ELSE IF cli.template.Globals.UnumIntermediaryDataStoreType # "dynamodb"
                  THEN [found EXCEPT !.stage = "done"]
                  ELSE [found EXCEPT !.stage = "poll"]
    /\ CliUnchanged

\* unum_cli.py:726-731, the head of one round of the for loop: the session
\* id is read from the output of the invocation.
InvokeSession(t) ==
    /\ cli.stage = "poll"
    /\ cli' = IF HasSessionId(cli.sam_output)
              THEN [cli EXCEPT !.stage = "get_item"]
              ELSE IF "json" \in DOMAIN cli.sam_output
              THEN [cli EXCEPT !.stage = "failed", !.error = "IndexError"]
              ELSE [cli EXCEPT !.stage = "failed", !.error = "JSONDecodeError"]
    /\ CliUnchanged

\* unum_cli.py:732-740 and 745, one round of the while loop: with the item
\* the loop is left for the next Finish function or the end of the run,
\* without it the run sleeps and asks again.
InvokeGetItem(t) ==
    /\ cli.stage = "get_item"
    /\ LET f == cli.finish_functions[cli.i + 1]
           name == function_name(cli.sam_output, f)
           asked == [cli EXCEPT !.polls = IF @ < MaxPolls THEN @ + 1 ELSE @]
       IN  cli' = IF ItemIn(cli.table, name)
                  THEN [asked EXCEPT !.finish_functions[cli.i + 1] = Returned(f, name),
                                     !.i = @ + 1,
                                     !.stage = IF cli.i + 1 = Len(cli.finish_functions)
                                               THEN "done" ELSE "poll"]
                  ELSE asked
    /\ CliUnchanged

\* The workflow that was invoked writes the output of one of its functions
\* to the table.
WorkflowWrites(t) ==
    /\ cli.stage \in {"finish", "poll", "get_item"}
    /\ HasSessionId(cli.sam_output)
    /\ \E k \in DOMAIN cli.template.Functions :
         LET name == function_name(cli.sam_output, cli.template.Functions[k])
         IN  /\ name \notin cli.table
             /\ cli' = [cli EXCEPT !.table = @ \cup {name}]
    /\ CliUnchanged

\* A function of the unum template.
Function(name, properties) == [Name |-> name, Properties |-> properties]

InvokeFunctions ==
    {<<Function("a", [Start |-> TRUE])>>,
     <<Function("a", [Start |-> TRUE, Finish |-> TRUE])>>,
     <<Function("a", [Start |-> TRUE]), Function("b", [Finish |-> TRUE])>>,
     <<Function("a", [Start |-> TRUE]), Function("b", [Finish |-> TRUE]),
       Function("c", [Finish |-> TRUE])>>,
     <<Function("a", [Start |-> FALSE]), Function("b", [Start |-> TRUE]),
       Function("c", [Start |-> TRUE, Finish |-> TRUE])>>,
     <<Function("a", [CodeUri |-> "a/"]), Function("b", [Finish |-> TRUE])>>}

InvokeTemplates ==
    {NoFile} \cup {[Functions |-> fs] : fs \in InvokeFunctions}
    \cup {[Globals |-> [ApplicationName |-> "app",
                         UnumIntermediaryDataStoreType |-> type,
                         UnumIntermediaryDataStoreName |-> "table"],
            Functions |-> fs] : type \in {"dynamodb", "s3"}, fs \in InvokeFunctions}

InitInvoke ==
    /\ unum_map_counter = 0
    /\ unum_parallel_counter = 0
    /\ phase = [t \in {1} |-> "cli"]
    /\ workflow = [t \in {1} |-> <<>>]
    /\ stack = [t \in {1} |-> <<>>]
    /\ ret = [t \in {1} |-> NoRet]
    /\ heap = [t \in {1} |-> <<>>]
    /\ results = [t \in {1} |-> <<>>]
    /\ arn_file_readable = TRUE
    /\ \E AWS_PROFILE \in BOOLEAN, template \in InvokeTemplates :
            cli = [stage |-> "invoke_profile", AWS_PROFILE |-> AWS_PROFILE,
                   template |-> template, start_function |-> PyNone,
                   invoked |-> <<>>, sam_output |-> [text |-> ""],
                   finish_functions |-> <<>>, i |-> 0, table |-> {}, polls |-> 0,
                   error |-> ""]

\* The steps of invoke_sam.
InvokeStep(t) ==
    \/ InvokeProfile(t)
    \/ InvokeTemplate(t)
    \/ InvokeStart(t)
    \/ sam_invoke_wrapper(t)
    \/ InvokeFinish(t)
    \/ InvokeSession(t)
    \/ InvokeGetItem(t)

NextInvoke == \E t \in {1} : InvokeStep(t) \/ WorkflowWrites(t)

SpecInvoke == InitInvoke /\ [][NextInvoke]_vars

\* invoke_sam runs on: a step it can take is taken.
SpecInvokeLive == SpecInvoke /\ WF_vars(\E t \in {1} : InvokeStep(t))

(***************************************************************************)
(* What the claims speak of.                                               *)
(***************************************************************************)
Threads == DOMAIN phase
Frames(t) == {stack[t][i] : i \in 1..Len(stack[t])}

HasNext(c) == "Next" \in DOMAIN c
\* The config continues to one named function.
NextIs(c, name) == HasNext(c) /\ c.Next = PyStr(name)
NextInputIs(c, s) == "NextInput" \in DOMAIN c /\ c.NextInput = PyStr(s)
\* The config's NextInput is {"Fan-in": {"Values": [...]}}.
HasFanIn(c) ==
    /\ "NextInput" \in DOMAIN c
    /\ "dict" \in DOMAIN c.NextInput
    /\ DOMAIN c.NextInput.dict = {"Fan-in"}
FanInValues(c) == c.NextInput.dict["Fan-in"].dict.Values.list

\* Every finished compilation of every thread.
Finished == {<<t, k>> \in Threads \X (1..MaxRuns + 1) : k <= Len(results[t])}
\* The positions of an IR list whose config satisfies P.
Positions(ir, P(_)) == {p \in 1..Len(ir) : P(ir[p])}
\* The elements of a set of positions, in increasing order.
RECURSIVE Ascending(_)
Ascending(S) ==
    IF S = {} THEN <<>>
    ELSE LET m == CHOOSE x \in S : \A y \in S : x <= y
         IN  <<m>> \o Ascending(S \ {m})

\* A Parallel frame whose loop over the branches (sf.py:157-164) is over.
ParallelWired(f) ==
    \/ f.pc = "parallel_next"
    \/ f.pc = "parallel_wire" /\ f.i > Len(f.branches)
\* A Map frame past sf.py:109-120.
MapWired(f) == f.pc \in {"map_wired", "map_next"}

(***************************************************************************)
(* C1.  For every Parallel state with k branches, once its branches are    *)
(* wired, the exit function of every branch has Next = the name of that    *)
(* Parallel's sink, UnumParallelSink{n}, and a Fan-in whose Values list    *)
(* has exactly k entries, is the same for all k exits, and holds at        *)
(* position j the name of branch j's exit followed by "-unumIndex-" and j  *)
(* (from 0, in the declared order).  In the finished IR the configs that   *)
(* continue to a UnumParallelSink{n} still carry exactly such a list.      *)
(***************************************************************************)
C1_ExpectedValues(exits) ==
    [j \in 1..Len(exits) |-> exits[j].Name \o "-unumIndex-" \o ToString(j - 1)]

C1_ParallelFanIn ==
    /\ \A t \in Threads : \A f \in Frames(t) :
        ParallelWired(f) =>
            LET k == Len(StateOf(f).Branches)
                sink == heap[t][f.sink]
            IN  /\ Len(f.branches) = k
                /\ \E n \in 0..unum_parallel_counter :
                        sink.Name = UnumParallelSinkName(n)
                /\ \A i \in 1..k :
                    LET c == heap[t][f.branches[i].exit]
                    IN  /\ NextIs(c, sink.Name)
                        /\ HasFanIn(c)
                        /\ FanInValues(c) = C1_ExpectedValues(
                             [j \in 1..k |-> heap[t][f.branches[j].exit]])
    /\ \A r \in Finished : \A n \in 0..unum_parallel_counter :
        LET ir == results[r[1]][r[2]].ir
            ToSink(c) == NextIs(c, UnumParallelSinkName(n))
            exits == Ascending(Positions(ir, ToSink))
        IN  \A i \in 1..Len(exits) :
                /\ HasFanIn(ir[exits[i]])
                /\ FanInValues(ir[exits[i]]) =
                        C1_ExpectedValues([j \in 1..Len(exits) |-> ir[exits[j]]])

\* A Parallel of two branches, both exits wired to its sink.
C1_Witness ==
    \E f \in Frames(1) :
        /\ ParallelWired(f)
        /\ Len(StateOf(f).Branches) = 2
        /\ \A i \in 1..2 : HasFanIn(heap[1][f.branches[i].exit])


(***************************************************************************)
(* C2.  For every Map state, once its iterator is wired, the exit function *)
(* of the iterator has Next = the name of that Map's sink, UnumMapSink{n}, *)
(* and a Fan-in of exactly one pattern, its own name followed by           *)
(* "-unumIndex-*"; the entry UnumMap{n} has Next = the name of the         *)
(* iterator's entry function and NextInput "Map"; whatever the iterator    *)
(* starts with (a Task, a Map or a Parallel).  The finished IR still shows *)
(* it: one config continues to each UnumMapSink{n}, with that one pattern. *)
(***************************************************************************)
\* The entry function that lowering a state machine's StartAt state gives
\* has the name of that state's own config.
C2_IsEntryOf(c, state_machine, t) ==
    LET start == state_machine.States[state_machine.StartAt]
    IN  CASE start.Type = "Task" -> c.Name = get_state_unum_function_name(start)
          [] start.Type = "Map" ->
                \E n \in 0..unum_map_counter : c.Name = UnumMapName(n)
          [] start.Type = "Parallel" ->
                \E n \in 0..unum_parallel_counter : c.Name = UnumParallelName(n)

C2_MapFanIn ==
    /\ \A t \in Threads : \A f \in Frames(t) :
        MapWired(f) =>
            LET entry == heap[t][f.barrier]
                sink == heap[t][f.sink]
                exit == heap[t][f.iterator.exit]
                iterator_entry == heap[t][f.iterator.entry]
            IN  /\ \E n \in 0..unum_map_counter :
                        /\ entry.Name = UnumMapName(n)
                        /\ sink.Name = UnumMapSinkName(n)
                /\ NextIs(exit, sink.Name)
                /\ HasFanIn(exit)
                /\ FanInValues(exit) = <<exit.Name \o "-unumIndex-*">>
                /\ NextIs(entry, iterator_entry.Name)
                /\ NextInputIs(entry, "Map")
                /\ C2_IsEntryOf(iterator_entry, StateOf(f).Iterator, t)
    /\ \A r \in Finished : \A n \in 0..unum_map_counter :
        LET ir == results[r[1]][r[2]].ir
            ToSink(c) == NextIs(c, UnumMapSinkName(n))
            IsSink(c) == c.Name = UnumMapSinkName(n)
            IsEntry(c) == c.Name = UnumMapName(n)
        IN  /\ Cardinality(Positions(ir, ToSink)) = Cardinality(Positions(ir, IsSink))
            /\ \A p \in Positions(ir, ToSink) :
                /\ HasFanIn(ir[p])
                /\ FanInValues(ir[p]) = <<ir[p].Name \o "-unumIndex-*">>
            /\ \A p \in Positions(ir, IsEntry) :
                /\ NextInputIs(ir[p], "Map")
                /\ HasNext(ir[p]) /\ "str" \in DOMAIN ir[p].Next

\* A Map whose iterator starts with a Parallel, wired; its iterator's exit
\* is that Parallel's sink.
C2_Witness ==
    \E f \in Frames(1) :
        /\ MapWired(f)
        /\ LET it == StateOf(f).Iterator
           IN  it.States[it.StartAt].Type = "Parallel"
        /\ HasFanIn(heap[1][f.iterator.exit])

(***************************************************************************)
(* C3.  After the checkpoint pass every config of the IR whose NextInput   *)
(* is a Fan-in has Checkpoint = TRUE, whether the template's default is    *)
(* TRUE or FALSE, and every other config (Next absent, one name with       *)
(* "Scalar", a list of names with "Scalar", one name with "Map") has       *)
(* Checkpoint = the template's default.                                    *)
(***************************************************************************)
\* The kinds of continuation a config without a Fan-in has.
C3_PlainKind(c) ==
    \/ ~HasNext(c) /\ "NextInput" \notin DOMAIN c
    \/ HasNext(c) /\ "str" \in DOMAIN c.Next /\ NextInputIs(c, "Scalar")
    \/ HasNext(c) /\ "list" \in DOMAIN c.Next /\ NextInputIs(c, "Scalar")
    \/ HasNext(c) /\ "str" \in DOMAIN c.Next /\ NextInputIs(c, "Map")

C3_CheckpointForcing ==
    \A r \in Finished :
        LET run == results[r[1]][r[2]]
        IN  \A p \in 1..Len(run.ir) :
                LET c == run.ir[p]
                IN  /\ "Checkpoint" \in DOMAIN c
                    /\ HasFanIn(c) => c.Checkpoint = TRUE
                    /\ ~HasFanIn(c) => C3_PlainKind(c) /\ c.Checkpoint = run.Checkpoint

\* A finished IR under the default FALSE that holds a Fan-in config, a
\* config with a list of names and a config without Next.
C3_Witness ==
    \E r \in Finished :
        LET run == results[r[1]][r[2]]
        IN  /\ run.Checkpoint = FALSE
            /\ \E p \in 1..Len(run.ir) : HasFanIn(run.ir[p]) /\ run.ir[p].Checkpoint
            /\ \E p \in 1..Len(run.ir) :
                    HasNext(run.ir[p]) /\ "list" \in DOMAIN run.ir[p].Next
            /\ \E p \in 1..Len(run.ir) : ~HasNext(run.ir[p])

(***************************************************************************)
(* C4.  As claimed: all Name values of an emitted IR list are pairwise     *)
(* distinct, Task configs and barriers alike.  The code names a Task's     *)
(* config after its Resource and never compares names, so two Task states  *)
(* on one function give two configs of one name.                           *)
(***************************************************************************)
NamesDistinct(ir) ==
    \A p, q \in 1..Len(ir) : ir[p].Name = ir[q].Name => p = q

C4_NamesDistinct ==
    \A r \in Finished : NamesDistinct(results[r[1]][r[2]].ir)

(***************************************************************************)
(* C6.  As claimed: after the checkpoint pass every sink barrier           *)
(* (UnumMapSink{n}, UnumParallelSink{n}) has Checkpoint = TRUE whatever    *)
(* the default.                                                            *)
(***************************************************************************)
IsSinkName(name) ==
    \E n \in 0..(unum_map_counter + unum_parallel_counter) :
        name \in {UnumMapSinkName(n), UnumParallelSinkName(n)}

C6_SinksCheckpointed ==
    \A r \in Finished :
        LET run == results[r[1]][r[2]]
        IN  \A p \in 1..Len(run.ir) :
                IsSinkName(run.ir[p].Name) => run.ir[p].Checkpoint = TRUE

(***************************************************************************)
(* C6 as amended.  A sink barrier has Checkpoint = TRUE whatever the       *)
(* default exactly when its own NextInput is a Fan-in (it is the exit of   *)
(* an enclosing iterator or branch); any other sink has the template's     *)
(* default.  For a Map without successor whose iterator is one terminal    *)
(* Task on f1, the IR is UnumMap0 (Next f1, "Map", default), f1 (Fan-in    *)
(* to UnumMapSink0 on "f1-unumIndex-*", TRUE), UnumMapSink0 (no Next,      *)
(* default).                                                               *)
(***************************************************************************)
C6_MapOfOneTask ==
    MkMachine(<<[Type |-> "Map",
                 Iterator |-> MkMachine(<<[Type |-> "Task", Resource |-> "f1"]>>)]>>)

C6_SinksCheckpointedAmended ==
    \A r \in Finished :
        LET run == results[r[1]][r[2]]
        IN  /\ \A p \in 1..Len(run.ir) :
                IsSinkName(run.ir[p].Name) =>
                    run.ir[p].Checkpoint = (HasFanIn(run.ir[p]) \/ run.Checkpoint)
            /\ (workflow[r[1]] = C6_MapOfOneTask /\ r[2] = 1) =>
                run.ir = << [Name |-> "UnumMap0", Next |-> PyStr("f1"),
                             NextInput |-> PyStr("Map"), Checkpoint |-> run.Checkpoint],
                            [Name |-> "f1", Next |-> PyStr("UnumMapSink0"),
                             NextInput |-> PyDict("Fan-in" :> PyDict(
                                [Values |-> PyList(<<"f1-unumIndex-*">>)])),
                             Checkpoint |-> TRUE],
                            [Name |-> "UnumMapSink0", Checkpoint |-> run.Checkpoint] >>

\* The Map of one Task compiled under the default FALSE.
C6_Witness ==
    /\ workflow[1] = C6_MapOfOneTask
    /\ Len(results[1]) >= 1
    /\ results[1][1].Checkpoint = FALSE
    /\ results[1][1].ir[3].Name = "UnumMapSink0"

(***************************************************************************)
(* C5.  Whenever a call of _translate_state_machine returns, at any depth  *)
(* and for a Task, a Map or a Parallel, the exit function it returns has   *)
(* no Next.  A config without Next gets one later only from the Map that   *)
(* received it as its iterator's exit (sf.py:109), from the Parallel that  *)
(* received it as a branch's exit (sf.py:164), or, being a sink not yet    *)
(* returned, from the call that made it (sf.py:124, 170); and a Next, once *)
(* set, is never set again to something else.                              *)
(***************************************************************************)
C5_ExitHasNoNext ==
    \A t \in Threads :
        ret[t] # NoRet =>
            /\ ret[t].exit \in DOMAIN heap[t]
            /\ ~HasNext(heap[t][ret[t].exit])

C5_SetByReceiver ==
    \A t \in Threads : \A h \in DOMAIN heap[t] \cap DOMAIN heap'[t] :
        LET before == heap[t][h]
            after == heap'[t][h]
        IN  /\ HasNext(before) =>
                /\ HasNext(after) /\ after.Next = before.Next
                /\ after.NextInput = before.NextInput
            /\ (~HasNext(before) /\ HasNext(after)) =>
                /\ Running(t)
                /\ LET f == Top(t)
                   IN  \/ f.pc = "map_wire" /\ h = f.iterator.exit
                       \/ /\ f.pc = "parallel_wire" /\ f.i <= Len(f.branches)
                          /\ h = f.branches[f.i].exit
                       \/ f.pc \in {"map_next", "parallel_next"} /\ h = f.sink

C5_DeferredContinuation == [](C5_ExitHasNoNext) /\ [][C5_SetByReceiver]_vars

\* A nested call has just returned a sink as its exit function, after an
\* inner exit function was given its Fan-in.
C5_Witness ==
    /\ ret[1] # NoRet
    /\ Len(stack[1]) >= 1
    /\ IsSinkName(heap[1][ret[1].exit].Name)
    /\ \E h \in DOMAIN heap[1] : HasFanIn(heap[1][h])

(***************************************************************************)
(* C7.  A chain of Task states compiled twice (or more) in one process,    *)
(* from the same input and under the same default, gives the same IR list  *)
(* each time: same names, same Next, same Checkpoint, same order.          *)
(***************************************************************************)
TaskOnly(state_machine) ==
    \A n \in DOMAIN state_machine.States : state_machine.States[n].Type = "Task"

C7_TaskChainIdempotent ==
    \A r \in Finished :
        LET first == results[r[1]][1]
            again == results[r[1]][r[2]]
        IN  (TaskOnly(workflow[r[1]]) /\ again.Checkpoint = first.Checkpoint)
                => again.ir = first.ir

\* A -> B -> C(End) compiled twice under one default.
C7_Witness ==
    /\ TaskOnly(workflow[1])
    /\ Cardinality(DOMAIN workflow[1].States) = 3
    /\ Len(results[1]) = 2
    /\ results[1][1].Checkpoint = results[1][2].Checkpoint
    /\ Len(results[1][2].ir) = 3

(***************************************************************************)
(* C8.  As claimed: a workflow with a Map or a Parallel state compiled     *)
(* twice in succession in one process gives the same IR both times.  The   *)
(* counters are module-level (sf.py:12-13) and nothing resets them, so the *)
(* second compilation numbers its barriers from where the first stopped.   *)
(***************************************************************************)
C8_RepeatIdentical ==
    \A r \in Finished :
        LET first == results[r[1]][1]
            again == results[r[1]][r[2]]
        IN  (~TaskOnly(workflow[r[1]]) /\ again.Checkpoint = first.Checkpoint)
                => again.ir = first.ir

(***************************************************************************)
(* C9.  As claimed: in every compilation the counters start at 0; a step   *)
(* changes a counter only by adding exactly 1, at the store of sf.py:107   *)
(* (Map) or sf.py:155 (Parallel), never resetting or decreasing it; the    *)
(* entry and the sink of one construct carry the same index; and a         *)
(* compilation that lowers m Map and p Parallel states emits exactly the   *)
(* pairs (UnumMap{i}, UnumMapSink{i}), i = 0..m-1, and (UnumParallel{j},   *)
(* UnumParallelSink{j}), j = 0..p-1, each once.  The counters are those of *)
(* the process (sf.py:12-13): a compilation that follows another one       *)
(* starts where that one stopped and emits the indices from there on.      *)
(***************************************************************************)
\* The states of the given type that lowering reaches from state `name`.
RECURSIVE Lowered(_, _, _)
LoweredInBranches(branches, type) ==
    LET RECURSIVE Sum(_)
        Sum(i) == IF i > Len(branches) THEN 0
                  ELSE Lowered(branches[i].StartAt, branches[i], type) + Sum(i + 1)
    IN  Sum(1)
Lowered(name, state_machine, type) ==
    LET state == state_machine.States[name]
        here == IF state.Type = type THEN 1 ELSE 0
        inside == CASE state.Type = "Map" ->
                        Lowered(state.Iterator.StartAt, state.Iterator, type)
                    [] state.Type = "Parallel" ->
                        LoweredInBranches(state.Branches, type)
                    [] OTHER -> 0
        terminal == state.Type = "Task" /\ "End" \in DOMAIN state /\ state.End = TRUE
        after == IF "Next" \in DOMAIN state /\ ~terminal
                 THEN Lowered(state.Next, state_machine, type)
                 ELSE 0
    IN  here + inside + after

Named(ir, name) == Cardinality({p \in 1..Len(ir) : ir[p].Name = name})

C9_ExactPairs(ir, m, p) ==
    /\ \A n \in 0..(unum_map_counter + unum_parallel_counter) :
        /\ Named(ir, UnumMapName(n)) = (IF n < m THEN 1 ELSE 0)
        /\ Named(ir, UnumMapSinkName(n)) = (IF n < m THEN 1 ELSE 0)
        /\ Named(ir, UnumParallelName(n)) = (IF n < p THEN 1 ELSE 0)
        /\ Named(ir, UnumParallelSinkName(n)) = (IF n < p THEN 1 ELSE 0)

C9_State ==
    \A t \in Threads :
        LET m == Lowered(workflow[t].StartAt, workflow[t], "Map")
            p == Lowered(workflow[t].StartAt, workflow[t], "Parallel")
            starting == /\ phase[t] = "lowering" /\ heap[t] = <<>>
                        /\ Len(stack[t]) = 1 /\ Top(t).pc = "start"
        IN  /\ (phase[t] = "idle" \/ starting)
                    => unum_map_counter = 0 /\ unum_parallel_counter = 0
            /\ \A f \in Frames(t) :
                /\ f.pc \in {"map_load", "map_store", "map_wire", "map_wired", "map_next"}
                    => \E n \in 0..unum_map_counter :
                        /\ heap[t][f.barrier].Name = UnumMapName(n)
                        /\ heap[t][f.sink].Name = UnumMapSinkName(n)
                /\ f.pc \in {"parallel_load", "parallel_store", "parallel_wire",
                             "parallel_next"}
                    => \E n \in 0..unum_parallel_counter :
                        /\ heap[t][f.barrier].Name = UnumParallelName(n)
                        /\ heap[t][f.sink].Name = UnumParallelSinkName(n)
            /\ phase[t] \in {"lowered", "done"} =>
                /\ unum_map_counter = m /\ unum_parallel_counter = p
                /\ C9_ExactPairs(IRList(heap[t], ret[t].ir), m, p)
            /\ \A k \in 1..Len(results[t]) : C9_ExactPairs(results[t][k].ir, m, p)

C9_CounterStep ==
    /\ \/ unum_map_counter' = unum_map_counter
       \/ /\ unum_map_counter' = unum_map_counter + 1
          /\ \E t \in Threads : Running(t) /\ Top(t).pc = "map_store"
    /\ \/ unum_parallel_counter' = unum_parallel_counter
       \/ /\ unum_parallel_counter' = unum_parallel_counter + 1
          /\ \E t \in Threads : Running(t) /\ Top(t).pc = "parallel_store"

C9_Counters == [](C9_State) /\ [][C9_CounterStep]_vars

\* The steps of Step, taken by one thread alone in a fresh process, add up
\* to Lowering: the two renderings of sf.py:50-185 agree.
StepsAgreeWithLowering ==
    \A t \in Threads :
        Len(results[t]) >= 1 =>
            results[t][1].ir = AloneIR(workflow[t], results[t][1].Checkpoint)

(***************************************************************************)
(* C10.  As claimed: when two compilations of independent workflows run    *)
(* interleaved in one process, each of them, under every interleaving,     *)
(* emits pairwise distinct barrier names, gives every barrier entry and    *)
(* its sink the same index, and emits the IR it emits when run alone.  The *)
(* two threads read and write the same module-level counters (sf.py:12-13, *)
(* 99, 105, 107, 146, 153, 155), so none of the three holds.               *)
(***************************************************************************)
IsBarrierName(name) ==
    \E n \in 0..(unum_map_counter + unum_parallel_counter) :
        name \in {UnumMapName(n), UnumMapSinkName(n),
                  UnumParallelName(n), UnumParallelSinkName(n)}

C10_BarriersDistinct(ir) ==
    \A p, q \in 1..Len(ir) :
        (IsBarrierName(ir[p].Name) /\ ir[p].Name = ir[q].Name) => p = q

C10_SameIndex(ir) ==
    \A n \in 0..(unum_map_counter + unum_parallel_counter) :
        /\ Named(ir, UnumMapName(n)) = Named(ir, UnumMapSinkName(n))
        /\ Named(ir, UnumParallelName(n)) = Named(ir, UnumParallelSinkName(n))

C10_Isolated ==
    \A r \in Finished :
        LET run == results[r[1]][r[2]]
        IN  /\ C10_BarriersDistinct(run.ir)
            /\ C10_SameIndex(run.ir)
            /\ run.ir = AloneIR(workflow[r[1]], run.Checkpoint)

(***************************************************************************)
(* Failures.  A state is reached when the call on it is about to run its   *)
(* body; a compilation that failed has returned nothing and printed        *)
(* nothing.                                                                *)
(***************************************************************************)
Terminal(state) == "End" \in DOMAIN state /\ state.End = TRUE
\* The call on top of thread t's stack has found its state and not yet
\* run.
AtState(t) == Running(t) /\ Top(t).pc = "start"
\* Thread t's compilation ended with an exception: no IR.
FailedWithoutIR(t) ==
    /\ phase[t] = "failed"
    /\ stack[t] = <<>>
    /\ results[t] = <<>>
\* Nothing follows a failure.
FailureIsFinal ==
    \A t \in Threads : phase[t] = "failed" => phase'[t] = "failed" /\ results' = results

(***************************************************************************)
(* C11.  When lowering reaches a Task state that has neither End == true   *)
(* nor Next, at any depth and any position of a chain, the very next step  *)
(* raises: the compilation fails, nothing more is lowered and no IR is     *)
(* returned, then or later.                                                *)
(***************************************************************************)
C11_Neither(state) ==
    state.Type = "Task" /\ ~Terminal(state) /\ "Next" \notin DOMAIN state

C11_RaisesAtOnce ==
    \A t \in Threads :
        (AtState(t) /\ C11_Neither(StateOf(Top(t)))) =>
            /\ FailedWithoutIR(t)'
            /\ heap' = heap

C11_NoIR == \A t \in Threads : phase[t] = "failed" => FailedWithoutIR(t)

C11_TaskNeitherRaises ==
    /\ [](C11_NoIR)
    /\ [][C11_RaisesAtOnce /\ FailureIsFinal]_vars

\* The bare raise of sf.py:92 inside the second branch of a Parallel, after
\* the first branch was lowered.
C11_Witness ==
    /\ phase[1] = "failed"
    /\ ret[1] = [raised |-> "RuntimeError"]
    /\ workflow[1].States[workflow[1].StartAt].Type = "Parallel"
    /\ heap[1] # <<>>

(***************************************************************************)
(* C12.  As claimed: a Task state that has both End == true and a Next is  *)
(* rejected when lowering reaches it; the compilation fails and no config  *)
(* is made for it.  The code tests End first (sf.py:61) and never looks at *)
(* Next: it emits the Task as a terminal one.                              *)
(***************************************************************************)
C12_Both(state) ==
    state.Type = "Task" /\ Terminal(state) /\ "Next" \in DOMAIN state

C12_Rejected ==
    \A t \in Threads :
        (AtState(t) /\ C12_Both(StateOf(Top(t)))) =>
            /\ FailedWithoutIR(t)'
            /\ heap' = heap

C12_BothRejected == [][C12_Rejected]_vars

(***************************************************************************)
(* C13.  As claimed: a Parallel state without branches, and a Map state    *)
(* whose iterator has no StartAt, make the compilation fail during the     *)
(* descent: once lowering reaches such a state the next step raises, or    *)
(* makes the call that raises, and no UnumParallel / UnumMap barrier is    *)
(* ever made for it.  The code fails on the Map (KeyError, sf.py:197) but  *)
(* lowers the Parallel: the comprehension of sf.py:143 and the loop of     *)
(* 157-164 run zero times.                                                 *)
(***************************************************************************)
C13_NoBranches(state) == state.Type = "Parallel" /\ state.Branches = <<>>
C13_NoEntry(state) == state.Type = "Map" /\ "StartAt" \notin DOMAIN state.Iterator
C13_Empty(state) == C13_NoBranches(state) \/ C13_NoEntry(state)

C13_NoBarrier ==
    \A t \in Threads : \A f \in Frames(t) :
        (f.pc # "key_error" /\ C13_Empty(StateOf(f))) => f.barrier = 0 /\ f.sink = 0

C13_Fails ==
    \A t \in Threads :
        (AtState(t) /\ C13_Empty(StateOf(Top(t)))) =>
            /\ heap' = heap
            /\ \/ FailedWithoutIR(t)'
               \/ Running(t)' /\ Top(t)'.pc = "key_error"

C13_EmptyBodiesFail == [](C13_NoBarrier) /\ [][C13_Fails]_vars

(***************************************************************************)
(* C14.  As claimed: a Next is looked up only in the States of the graph   *)
(* that directly holds the state.  A call for a successor is made on the   *)
(* caller's own graph (for a Task, a Map and a Parallel alike), a call     *)
(* into a nested body is made on its StartAt, and the call finds its state *)
(* only if that graph has it; a state whose Next names no state of its own *)
(* graph (a state of an enclosing graph, of a nested body, or of no graph) *)
(* never returns: the compilation fails.  The code never looks at the Next *)
(* of a Task that has End == true (C12), so such a Task returns whatever   *)
(* its Next names.                                                         *)
(***************************************************************************)
C14_Unresolved(f) ==
    /\ f.pc # "key_error"
    /\ "Next" \in DOMAIN StateOf(f)
    /\ StateOf(f).Next \notin DOMAIN f.state_machine.States

\* The top frame of thread t returns to its caller in this step.
Returns(t) ==
    /\ Running(t)
    /\ Len(stack'[t]) < Len(stack[t])
    /\ phase'[t] # "failed"

C14_NeverReturns ==
    \A t \in Threads : (Running(t) /\ C14_Unresolved(Top(t))) => ~Returns(t)

C14_CallsInScope ==
    \A t \in Threads :
        (Running(t) /\ Len(stack'[t]) = Len(stack[t]) + 1) =>
            LET f == Top(t)
                state == StateOf(f)
                g == stack'[t][Len(stack'[t])]
                Successor == /\ "Next" \in DOMAIN state
                             /\ g.state_machine = f.state_machine
                             /\ g.state_name = state.Next
                Nested(body) == /\ g.state_machine = body
                                /\ "StartAt" \in DOMAIN body => g.state_name = body.StartAt
                                /\ "StartAt" \notin DOMAIN body => g.pc = "key_error"
            IN  /\ \/ Successor
                   \/ state.Type = "Map" /\ f.pc = "start" /\ Nested(state.Iterator)
                   \/ /\ state.Type = "Parallel"
                      /\ \E i \in 1..Len(state.Branches) : Nested(state.Branches[i])
                /\ g.pc = "start" <=> /\ "StartAt" \in DOMAIN g.state_machine
                                      /\ g.state_name \in DOMAIN g.state_machine.States

C14_ScopedSuccessors == [][C14_NeverReturns /\ C14_CallsInScope]_vars

(***************************************************************************)
(* C15: a failure is all-or-nothing.  In every run in which an error is    *)
(* raised at any point, during lowering, during the checkpoint pass or     *)
(* during emission, no IR record is emitted: the lowering hands over no IR *)
(* list, and no unum_config.json has been written.                         *)
(***************************************************************************)
CliFailed == cli.stage \in {"failed", "usage_error"}

C15_AllOrNothing ==
    /\ \A t \in Threads : phase[t] = "failed" => results[t] = <<>>
    /\ CliFailed => cli.written = <<>>

(***************************************************************************)
(* C16: the Name of a Task's config is the name the resolver gives for the *)
(* Task's Resource: the Resource itself when it is no Lambda function ARN, *)
(* and for a Lambda function ARN the function name whose recorded ARN      *)
(* equals it.  When the ARN is recorded for no function, or the record     *)
(* cannot be read, the compilation fails and returns no IR.                *)
(***************************************************************************)
C16_Functions == {"f1", "f2", "f3", "f9"}

\* The names the claim allows for a Resource; none when it is to fail.
C16_Names(resource) ==
    IF \E n \in C16_Functions : resource = LambdaArn(n)
    THEN IF arn_file_readable
         THEN {function_arn_yaml[i][1] : i \in {j \in DOMAIN function_arn_yaml :
                                                  function_arn_yaml[j][2] = resource}}
         ELSE {}
    ELSE {resource}

\* A Task is being lowered: just reached, or waiting for its successor.
C16_InTask(t) ==
    /\ Running(t)
    /\ Top(t).pc \in {"start", "task_next"}
    /\ StateOf(Top(t)).Type = "Task"

C16_Named ==
    \A t \in Threads : C16_InTask(t) =>
        LET names == C16_Names(StateOf(Top(t)).Resource)
        IN  /\ Top(t).pc = "start" /\ names = {} => FailedWithoutIR(t)'
            /\ Len(heap'[t]) > Len(heap[t]) =>
                    /\ Len(heap'[t]) = Len(heap[t]) + 1
                    /\ heap'[t][Len(heap'[t])].Name \in names
            /\ Top(t).pc = "start" /\ names # {} /\ Terminal(StateOf(Top(t))) =>
                    Len(heap'[t]) > Len(heap[t])
            /\ Top(t).pc = "task_next" /\ phase'[t] # "failed" =>
                    Len(heap'[t]) > Len(heap[t])

C16_TaskNamedByResolver == [][C16_Named /\ FailureIsFinal]_vars

\* A finished compilation whose first Task named the recorded ARN of f2.
C16_Witness ==
    \E t \in Threads :
        /\ phase[t] = "done"
        /\ workflow[t].States[workflow[t].StartAt].Type = "Task"
        /\ workflow[t].States[workflow[t].StartAt].Resource = LambdaArn("f2")
        /\ results[t][1].ir[1].Name = "f2"

(***************************************************************************)
(* C17: the emitter routes every config of the finished IR to exactly one  *)
(* destination.  A config whose Name is a function declared in the         *)
(* template is written to that function's CodeUri directory; every other   *)
(* config (a synthetic barrier) is written under its own Name and is       *)
(* registered as an additional function of the application, so that once   *)
(* the run is done every config's Name is a function of the template.      *)
(***************************************************************************)
C17_Destination(f) ==
    IF Declared(cli.app_template, f)
    THEN ".unum/" \o cli.app_template.Functions[f.Name].Properties.CodeUri
         \o "unum_config.json"
    ELSE ".unum/" \o f.Name \o "/unum_config.json"

C17_Registered(f) == f.Name \in DOMAIN cli.app_template.Functions

C17_Routed ==
    cli.stage = "done" =>
        \A t \in Threads :
            /\ Len(cli.written) = Len(CliIR(t))
            /\ \A k \in DOMAIN cli.written :
                    /\ cli.written[k].content = CliIR(t)[k]
                    /\ cli.written[k].path = C17_Destination(CliIR(t)[k])
                    /\ C17_Registered(CliIR(t)[k])

(***************************************************************************)
(* C18: a compilation asked for with an optimization name that is not a    *)
(* supported one fails with an error that names the optimization, and      *)
(* emits no IR: compile is never called and nothing is written.  A         *)
(* compilation with no optimization, or with a supported one, proceeds to  *)
(* load its inputs.                                                        *)
(***************************************************************************)
C18_Unsupported == cli.optimize # <<>> /\ cli.optimize[1] # "trim"

C18_NothingEmitted ==
    /\ cli.written = <<>>
    /\ \A t \in Threads : phase[t] = "cli" /\ results[t] = <<>>

C18_Rejected ==
    /\ C18_Unsupported => cli.stage \in {"args", "usage_error"} /\ C18_NothingEmitted
    /\ cli.stage = "usage_error" =>
            /\ C18_Unsupported
            /\ StrContains(cli.error, "'" \o cli.optimize[1] \o "'")

C18_Parsed ==
    cli.stage = "args" =>
        cli'.stage = IF C18_Unsupported THEN "usage_error" ELSE "load"

C18_UnsupportedOptimization == [](C18_Rejected) /\ [][C18_Parsed]_vars

\* The run asked for with -o fuse has ended with the usage error.
C18_Witness == cli.stage = "usage_error" /\ cli.optimize = <<"fuse">>

(***************************************************************************)
(* C19: a chain of Tasks linked by Next and ending in a terminal Task is   *)
(* lowered to one config per Task, in chain order.  Every non-terminal     *)
(* Task's config has Next = the Name of the entry function of its          *)
(* successor's lowering and NextInput = "Scalar"; the terminal Task's      *)
(* config has no Next.  The entry function returned is the first Task's    *)
(* config, the exit function returned is the exit function of the last     *)
(* successor.                                                              *)
(***************************************************************************)
RECURSIVE C19_Chain(_, _, _)
\* The states from `name` on along Next, up to the terminal one; n bounds
\* the walk.
C19_Chain(sm, name, n) ==
    IF Terminal(sm.States[name]) \/ n <= 1 THEN <<name>>
    ELSE <<name>> \o C19_Chain(sm, sm.States[name].Next, n - 1)

C19_TaskChain(sm) == \A name \in DOMAIN sm.States : sm.States[name].Type = "Task"

\* The value returned to main for a workflow that is a chain of Tasks.
C19_WholeChain ==
    \A t \in Threads :
        phase[t] = "lowered" /\ C19_TaskChain(workflow[t]) =>
            LET sm == workflow[t]
                chain == C19_Chain(sm, sm.StartAt, Cardinality(DOMAIN sm.States))
                r == ret[t]
                config(k) == heap[t][r.ir[k]]
            IN  /\ Len(r.ir) = Len(chain)
                /\ \A k \in DOMAIN chain :
                        /\ config(k).Name \in C16_Names(sm.States[chain[k]].Resource)
                        /\ IF k < Len(chain)
                           THEN /\ config(k).Next = PyStr(config(k + 1).Name)
                                /\ config(k).NextInput = PyStr("Scalar")
                           ELSE "Next" \notin DOMAIN config(k)
                /\ r.entry = r.ir[1]
                /\ r.exit = r.ir[Len(chain)]

\* Every return of a Task, at any depth: what it returns, given what its
\* successor returned.
C19_TaskReturns ==
    \A t \in Threads :
        C16_InTask(t) /\ Len(stack'[t]) < Len(stack[t]) /\ phase'[t] # "failed" =>
            LET r == ret'[t]
                n == r.ir[1]
                config == heap'[t][n]
            IN  /\ r.entry = n
                /\ n = Len(heap[t]) + 1
                /\ IF Top(t).pc = "start"
                   THEN /\ r.ir = <<n>>
                        /\ r.exit = n
                        /\ "Next" \notin DOMAIN config
                   ELSE /\ r.ir = <<n>> \o ret[t].ir
                        /\ r.exit = ret[t].exit
                        /\ config.Next = PyStr(heap[t][ret[t].entry].Name)
                        /\ config.NextInput = PyStr("Scalar")

C19_TaskChainLowering == [](C19_WholeChain) /\ [][C19_TaskReturns]_vars

\* A chain of four Tasks has been lowered.
C19_Witness ==
    \E t \in Threads :
        /\ phase[t] = "lowered"
        /\ C19_TaskChain(workflow[t])
        /\ Cardinality(DOMAIN workflow[t].States) = MaxNodes
        /\ Len(ret[t].ir) = MaxNodes

(***************************************************************************)
(* C20: the IR of a Parallel state is its entry function, then the IR of   *)
(* every branch in the order the branches are declared, then its sink; the *)
(* entry function's Next is the list of the branches' entry function       *)
(* names, in the same order, with NextInput = "Scalar".                    *)
(***************************************************************************)
RECURSIVE C20_Concat(_)
C20_Concat(branches) ==
    IF branches = <<>> THEN <<>> ELSE Head(branches).ir \o C20_Concat(Tail(branches))

\* config is what the lowering of graph sm starts with.
C20_StartsGraph(config, sm) ==
    LET state == sm.States[sm.StartAt]
    IN  IF state.Type = "Task" THEN config.Name \in C16_Names(state.Resource)
        ELSE IF state.Type = "Map" THEN SubSeq(config.Name, 1, 7) = "UnumMap"
        ELSE SubSeq(config.Name, 1, 12) = "UnumParallel"

\* A Parallel frame leaves the loop over its branches: the IR it goes on
\* with, or returns.
C20_Assembled ==
    \A t \in Threads :
        Running(t) /\ Top(t).pc = "parallel_wire" /\ Top(t).i > Len(Top(t).branches)
        /\ stack'[t] # stack[t] =>
            LET f == Top(t)
                state == StateOf(f)
                ir == IF "Next" \in DOMAIN state
                      THEN stack'[t][Len(stack[t])].ir ELSE ret'[t].ir
                entry == heap[t][f.barrier]
            IN  /\ Len(f.branches) = Len(state.Branches)
                /\ ir = <<f.barrier>> \o C20_Concat(f.branches) \o <<f.sink>>
                /\ entry.Next = PyList([i \in 1..Len(state.Branches) |->
                                            heap[t][f.branches[i].entry].Name])
                /\ entry.NextInput = PyStr("Scalar")
                /\ \A i \in 1..Len(state.Branches) :
                        /\ f.branches[i].ir # <<>>
                        /\ f.branches[i].entry = f.branches[i].ir[1]
                        /\ C20_StartsGraph(heap[t][f.branches[i].entry], state.Branches[i])
                /\ SubSeq(entry.Name, 1, 12) = "UnumParallel"
                /\ heap[t][f.sink].Name =
                        "UnumParallelSink" \o SubSeq(entry.Name, 13, Len(entry.Name))

\* A workflow that is one Parallel state whose branches are one Task each.
C20_Flat(sm) ==
    /\ DOMAIN sm.States = {sm.StartAt}
    /\ sm.States[sm.StartAt].Type = "Parallel"
    /\ \A i \in DOMAIN sm.States[sm.StartAt].Branches :
            LET b == sm.States[sm.StartAt].Branches[i]
            IN  DOMAIN b.States = {b.StartAt} /\ b.States[b.StartAt].Type = "Task"

\* The value returned to main for such a workflow.
C20_FlatParallel ==
    \A t \in Threads :
        phase[t] = "lowered" /\ C20_Flat(workflow[t]) =>
            LET bs == workflow[t].States[workflow[t].StartAt].Branches
                ir == ret[t].ir
                name(k) == heap[t][ir[k]].Name
            IN  /\ Len(ir) = Len(bs) + 2
                /\ SubSeq(name(1), 1, 12) = "UnumParallel"
                /\ SubSeq(name(Len(ir)), 1, 16) = "UnumParallelSink"
                /\ \A i \in DOMAIN bs :
                        name(i + 1) \in C16_Names(bs[i].States[bs[i].StartAt].Resource)
                /\ heap[t][ir[1]].Next = PyList([i \in DOMAIN bs |-> name(i + 1)])
                /\ heap[t][ir[1]].NextInput = PyStr("Scalar")

C20_ParallelIR == [](C20_FlatParallel) /\ [][C20_Assembled]_vars

\* A Parallel of as many one-Task branches as the bound allows, the first
\* and the third of different functions, has been lowered.
C20_Witness ==
    \E t \in Threads :
        /\ phase[t] = "lowered"
        /\ C20_Flat(workflow[t])
        /\ Len(ret[t].ir) = MaxNodes + 1
        /\ heap[t][ret[t].ir[2]].Name # heap[t][ret[t].ir[4]].Name

(***************************************************************************)
(* C21: a Map or Parallel state with a successor has its sink continue     *)
(* with the successor: the sink's Next is the Name of the entry function   *)
(* of the successor's lowering, with NextInput = "Scalar", the successor's *)
(* IR follows the sink and the exit function returned is the successor's.  *)
(* Without a successor the sink has no Next and is the exit function       *)
(* returned.  The entry function returned is the entry barrier either way. *)
(***************************************************************************)
C21_InConstruct(t) ==
    /\ Running(t)
    /\ Top(t).pc \in {"map_wired", "map_next", "parallel_wire", "parallel_next"}

\* Every return of a Map or a Parallel, at any depth: what it returns,
\* given what its successor (if any) returned.
C21_ConstructReturns ==
    \A t \in Threads :
        C21_InConstruct(t) /\ Len(stack'[t]) < Len(stack[t]) /\ phase'[t] # "failed" =>
            LET f == Top(t)
                state == StateOf(f)
                r == ret'[t]
                sink == heap'[t][f.sink]
                k == CHOOSE j \in DOMAIN r.ir : r.ir[j] = f.sink
            IN  /\ state.Type \in {"Map", "Parallel"}
                /\ r.entry = f.barrier
                /\ r.ir[1] = f.barrier
                /\ f.sink \in {r.ir[j] : j \in DOMAIN r.ir}
                /\ IF "Next" \in DOMAIN state
                   THEN /\ f.pc \in {"map_next", "parallel_next"}
                        /\ ret[t].state_name = state.Next
                        /\ sink.Next = PyStr(heap[t][ret[t].entry].Name)
                        /\ sink.NextInput = PyStr("Scalar")
                        /\ SubSeq(r.ir, k + 1, Len(r.ir)) = ret[t].ir
                        /\ r.exit = ret[t].exit
                   ELSE /\ "Next" \notin DOMAIN sink
                        /\ k = Len(r.ir)
                        /\ r.exit = f.sink

\* A workflow of two states: a Map or a Parallel, then a terminal Task.
C21_ThenTask(sm) ==
    /\ DOMAIN sm.States = {StateName(1), StateName(2)}
    /\ sm.StartAt = StateName(1)
    /\ sm.States[StateName(1)].Type \in {"Map", "Parallel"}
    /\ sm.States[StateName(2)].Type = "Task"

\* The value returned to main for such a workflow.
C21_SinkThenTask ==
    \A t \in Threads :
        phase[t] = "lowered" /\ C21_ThenTask(workflow[t]) =>
            LET r == ret[t]
                n == Len(r.ir)
                last == heap[t][r.ir[n]]
                sink == heap[t][r.ir[n - 1]]
                kind == workflow[t].States[StateName(1)].Type
            IN  /\ last.Name \in C16_Names(workflow[t].States[StateName(2)].Resource)
                /\ "Next" \notin DOMAIN last
                /\ SubSeq(sink.Name, 1, Len(kind) + 8) = "Unum" \o kind \o "Sink"
                /\ sink.Next = PyStr(last.Name)
                /\ sink.NextInput = PyStr("Scalar")
                /\ SubSeq(heap[t][r.entry].Name, 1, Len(kind) + 4) = "Unum" \o kind
                /\ r.entry = r.ir[1]
                /\ r.exit = r.ir[n]

C21_SuccessorWiring == [](C21_SinkThenTask) /\ [][C21_ConstructReturns]_vars

\* A Parallel followed by a Task has been lowered.
C21_Witness ==
    \E t \in Threads :
        /\ phase[t] = "lowered"
        /\ C21_ThenTask(workflow[t])
        /\ workflow[t].States[StateName(1)].Type = "Parallel"
        /\ Len(ret[t].ir) >= 4

(***************************************************************************)
(* C22: a Map allocates its barrier pair before its iterator is lowered,   *)
(* and a Parallel before its branches are, so that in a run that starts    *)
(* with the counters at 0 an enclosing Map or Parallel gets a strictly     *)
(* smaller index than every construct of the same kind nested in its body: *)
(* a Map whose iterator contains a Map gives UnumMap0 for the outer one    *)
(* and UnumMap1 for the inner one.                                         *)
(***************************************************************************)
C22_IsMapEntry(config) ==
    "NextInput" \in DOMAIN config /\ config.NextInput = PyStr("Map")

C22_IsParallelEntry(config) == "Next" \in DOMAIN config /\ "list" \in DOMAIN config.Next

\* The number a barrier's name ends with, after `skip` characters.
C22_Index(config, skip) ==
    CHOOSE n \in 0..(unum_map_counter + unum_parallel_counter) :
        ToString(n) = SubSeq(config.Name, skip + 1, Len(config.Name))

\* The IR lowered so far inside the body of the construct of frame f.
C22_Body(f) ==
    IF f.iterator # NoRet THEN f.iterator.ir ELSE C20_Concat(f.branches)

\* In the first run of a process, every frame that has its entry barrier
\* has a smaller index than the barriers of its kind in its body.
C22_OuterSmaller ==
    \A t \in Threads : results[t] = <<>> =>
        \A d \in DOMAIN stack[t] :
            LET f == stack[t][d]
                outer == heap[t][f.barrier]
            IN  f.barrier # 0 =>
                    \A k \in DOMAIN C22_Body(f) :
                        LET inner == heap[t][C22_Body(f)[k]]
                        IN  /\ C22_IsMapEntry(outer) /\ C22_IsMapEntry(inner) =>
                                    C22_Index(outer, 7) < C22_Index(inner, 7)
                            /\ C22_IsParallelEntry(outer) /\ C22_IsParallelEntry(inner) =>
                                    C22_Index(outer, 12) < C22_Index(inner, 12)

\* The body of a construct is lowered only once its barrier pair is there.
C22_PairFirst ==
    \A t \in Threads :
        Running(t) /\ Len(stack'[t]) > Len(stack[t])
        /\ stack'[t][Len(stack[t])].pc \in {"map_iterator", "parallel_branches"} =>
            Top(t).barrier # 0 /\ Top(t).sink # 0

C22_OuterAllocatedFirst == [](C22_OuterSmaller) /\ [][C22_PairFirst]_vars

(***************************************************************************)
(* C23: over a whole compilation the Next of a config, with its NextInput, *)
(* is assigned at most once.  Once a config has a Next no later step of    *)
(* the lowering changes or removes it, and the checkpoint pass runs only   *)
(* after the last assignment of a Next: on the IR the lowering returned to *)
(* main, with no call left, and nothing touches a Next after it.           *)
(***************************************************************************)
C23_SameRun(t) == Len(heap'[t]) >= Len(heap[t]) /\ phase'[t] # "idle"

\* The configs that have a Next keep it, and its NextInput, in this step.
C23_NextKept ==
    \A t \in Threads : C23_SameRun(t) =>
        \A h \in DOMAIN heap[t] :
            "Next" \in DOMAIN heap[t][h] =>
                /\ "Next" \in DOMAIN heap'[t][h]
                /\ heap'[t][h].Next = heap[t][h].Next
                /\ "NextInput" \in DOMAIN heap[t][h]
                /\ heap'[t][h].NextInput = heap[t][h].NextInput

\* A step that gives a config its Next is a step of the lowering.
C23_AssignedWhileLowering ==
    \A t \in Threads : C23_SameRun(t) =>
        \A h \in DOMAIN heap'[t] :
            /\ "Next" \in DOMAIN heap'[t][h]
            /\ h \in DOMAIN heap[t] => "Next" \notin DOMAIN heap[t][h]
            => Running(t)

\* The checkpoint pass: after the lowering has returned, on its configs as
\* they are.
C23_PassLast ==
    \A t \in Threads :
        results'[t] # results[t] =>
            /\ phase[t] = "lowered" /\ stack[t] = <<>>
            /\ LET ir == results'[t][Len(results'[t])].ir
               IN  /\ Len(ir) = Len(ret[t].ir)
                   /\ \A k \in DOMAIN ir :
                          [key \in DOMAIN ir[k] \ {"Checkpoint"} |-> ir[k][key]]
                              = heap[t][ret[t].ir[k]]

C23_NextAssignedOnce ==
    [][C23_NextKept /\ C23_AssignedWhileLowering /\ C23_PassLast]_vars

\* A finished compilation in which a sink was given its Next after it was
\* made: that of a Map followed by another state.
C23_Witness ==
    \E t \in Threads :
        /\ phase[t] = "done"
        /\ workflow[t].States[workflow[t].StartAt].Type = "Map"
        /\ "Next" \in DOMAIN workflow[t].States[workflow[t].StartAt]
        /\ \E k \in DOMAIN results[t][1].ir :
                /\ StrContains(results[t][1].ir[k].Name, "UnumMapSink")
                /\ "Next" \in DOMAIN results[t][1].ir[k]

(***************************************************************************)
(* C24: for every finite workflow the lowering ends, with an IR or with an *)
(* error, after a number of recursive calls bounded by the size of the     *)
(* graph and its nesting depth, also when the Next links of one graph form *)
(* a cycle.  The calls in progress are then never more than the states of  *)
(* the workflow, at all nesting depths together, and a lowering that has   *)
(* made that many calls makes no further one.                              *)
(***************************************************************************)
RECURSIVE C24_Size(_), C24_Sum(_, _), C24_SumBranches(_)
\* The states of a graph, those of its iterators and branches included.
C24_Size(sm) == C24_Sum(sm, DOMAIN sm.States)

C24_Sum(sm, names) ==
    IF names = {} THEN 0
    ELSE LET n == CHOOSE x \in names : TRUE
             state == sm.States[n]
         IN  1 + C24_Sum(sm, names \ {n})
               + (IF state.Type = "Map" THEN C24_Size(state.Iterator) ELSE 0)
               + (IF state.Type = "Parallel" THEN C24_SumBranches(state.Branches) ELSE 0)

C24_SumBranches(branches) ==
    IF branches = <<>> THEN 0
    ELSE C24_Size(Head(branches)) + C24_SumBranches(Tail(branches))

C24_CallsBounded ==
    \A t \in Threads : Len(stack[t]) <= C24_Size(workflow[t])

(***************************************************************************)
(* C25: a state whose Type is none of Task, Map and Parallel is never      *)
(* silently ignored.  Reaching one during the lowering, as the entry       *)
(* state, as a successor or inside an iterator or a branch, makes the      *)
(* lowering call fail with an error: the call on that state raises, and a  *)
(* lowering never returns to main without an IR.                           *)
(***************************************************************************)
C25_AtUnknown(t) ==
    AtState(t) /\ StateOf(Top(t)).Type \notin {"Task", "Map", "Parallel"}

C25_Raises == \A t \in Threads : C25_AtUnknown(t) => FailedWithoutIR(t)'

C25_ReturnsIR ==
    \A t \in Threads : phase[t] = "lowered" => "ir" \in DOMAIN ret[t]

C25_UnknownTypeFails == [](C25_ReturnsIR) /\ [][C25_Raises]_vars

(***************************************************************************)
(* C26: when the destination of the config of a declared function cannot   *)
(* be located (the template gives it no CodeUri) or created (its           *)
(* directory cannot be made), the emitter fails with an error at that      *)
(* config: it writes neither that config nor any of the remaining ones.    *)
(***************************************************************************)
C26_Emitting(t) == cli.stage = "emit" /\ cli.i <= Len(CliIR(t))

\* The config about to be emitted is a declared function's and has no
\* destination.
C26_NoDestination(t) ==
    LET f == CliIR(t)[cli.i]
        fns == cli.app_template.Functions
    IN  /\ "Functions" \in DOMAIN cli.app_template
        /\ f.Name \in DOMAIN fns
        /\ IF "CodeUri" \in DOMAIN fns[f.Name].Properties
           THEN (".unum/" \o fns[f.Name].Properties.CodeUri) \in cli.unwritable
           ELSE TRUE

C26_FailsThere ==
    \A t \in Threads :
        /\ C26_Emitting(t) /\ C26_NoDestination(t) =>
                /\ cli'.stage = "failed"
                /\ cli'.error # ""
                /\ cli'.written = cli.written
        /\ cli.stage = "failed" => cli' = cli

C26_DestinationMissing == [][C26_FailsThere]_vars

\* The run has failed at its second config, a declared function's whose
\* directory cannot be made, with the first one written.
C26_Witness ==
    \E t \in Threads :
        /\ cli.stage = "failed"
        /\ cli.i = 2
        /\ Len(cli.written) = 1
        /\ "Functions" \in DOMAIN cli.app_template
        /\ Declared(cli.app_template, CliIR(t)[2])
        /\ "CodeUri" \in DOMAIN cli.app_template.Functions[CliIR(t)[2].Name].Properties
        /\ FunctionDir(cli.app_template, CliIR(t)[2]) \in cli.unwritable

(***************************************************************************)
(* C27: on every successful return of _translate_state_machine, at any     *)
(* nesting depth, the entry function returned is the first element of the  *)
(* IR list returned and the exit function returned is its last element:    *)
(* the very dicts of the list, not copies of them.                         *)
(***************************************************************************)
C27_Returned(t) == "ir" \in DOMAIN ret[t]

C27_EntryFirstExitLast ==
    \A t \in Threads : C27_Returned(t) =>
        LET r == ret[t]
        IN  /\ r.ir # <<>>
            /\ r.entry = r.ir[1]
            /\ r.exit = r.ir[Len(r.ir)]
            /\ \A j, k \in DOMAIN r.ir : j # k => r.ir[j] # r.ir[k]
            /\ \A k \in DOMAIN r.ir : r.ir[k] \in DOMAIN heap[t]

\* A call at depth has returned an IR of more than one config to a caller
\* that is itself waiting inside another call.
C27_Witness ==
    \E t \in Threads :
        /\ Running(t)
        /\ Len(stack[t]) >= 2
        /\ C27_Returned(t)
        /\ Len(ret[t].ir) >= 3
        /\ ret[t].entry # ret[t].exit

(***************************************************************************)
(* C28: in the IR of a successful compilation every continuation is closed *)
(* over the IR.  Each Next that is a name, each element of a Next that is  *)
(* a list and each Next of a config with a Fan-in is the Name of a config  *)
(* of the same IR; the Next of a config with a Fan-in is the Name of a     *)
(* sink (UnumMapSink<n> or UnumParallelSink<n>); and the only config       *)
(* without a Next is the exit function of the whole workflow, the last     *)
(* config of the IR.                                                       *)
(***************************************************************************)
C28_Names(ir) == {ir[k].Name : k \in DOMAIN ir}

C28_IsSink(name) ==
    \E n \in 0..(unum_map_counter + unum_parallel_counter) :
        name \in {"UnumMapSink" \o ToString(n), "UnumParallelSink" \o ToString(n)}

C28_HasFanIn(c) ==
    /\ "NextInput" \in DOMAIN c
    /\ "dict" \in DOMAIN c.NextInput
    /\ "Fan-in" \in DOMAIN c.NextInput.dict

C28_Closed(ir) ==
    \A k \in DOMAIN ir :
        LET c == ir[k]
        IN  /\ "Next" \in DOMAIN c <=> k # Len(ir)
            /\ "Next" \in DOMAIN c =>
                    IF "list" \in DOMAIN c.Next
                    THEN \A j \in DOMAIN c.Next.list : c.Next.list[j] \in C28_Names(ir)
                    ELSE c.Next.str \in C28_Names(ir)
            /\ C28_HasFanIn(c) =>
                    /\ "Next" \in DOMAIN c
                    /\ "str" \in DOMAIN c.Next
                    /\ C28_IsSink(c.Next.str)
                    /\ c.Next.str \in C28_Names(ir)

C28_TargetsClosed ==
    \A t \in Threads : \A r \in DOMAIN results[t] : C28_Closed(results[t][r].ir)

\* A finished IR with a fan-out list, a Fan-in and a sink that goes on to a
\* successor.
C28_Witness ==
    \E t \in Threads :
        /\ phase[t] = "done"
        /\ LET ir == results[t][1].ir
           IN  /\ \E k \in DOMAIN ir : "Next" \in DOMAIN ir[k] /\ "list" \in DOMAIN ir[k].Next
               /\ \E k \in DOMAIN ir : C28_HasFanIn(ir[k])
               /\ \E k \in DOMAIN ir : C28_IsSink(ir[k].Name) /\ "Next" \in DOMAIN ir[k]

(***************************************************************************)
(* C29.  In deploy_sam the trial deployment (the first sam deploy and the  *)
(* creation of the function-to-ARN mapping) is performed if and only if    *)
(* function-arn.yaml does not exist at the start; the final sam deploy is  *)
(* performed only after the build artifacts were validated; and the        *)
(* rollback of the trial deployment is invoked only when this run          *)
(* performed the trial deployment and validation then failed, and then the *)
(* run ends with an error and without a final deploy.                      *)
(***************************************************************************)
C29_Deploying == "trace" \in DOMAIN cli
C29_Ended == cli.stage \in {"done", "failed"}
C29_Has(call) == \E k \in DOMAIN cli.trace : cli.trace[k] = call
C29_Count(call) == Cardinality({k \in DOMAIN cli.trace : cli.trace[k] = call})

\* The first sam deploy follows the look for function-arn.yaml at once.
C29_TrialDeploy ==
    /\ Len(cli.trace) >= 2
    /\ cli.trace[1] = "isfile"
    /\ cli.trace[2] = "sam_deploy"

\* The sam deploy that follows the validation.
C29_FinalDeploy ==
    \E k \in DOMAIN cli.trace :
        /\ k > 1
        /\ cli.trace[k] = "sam_deploy"
        /\ cli.trace[k - 1] # "isfile"

C29_TrialWhenReached ==
    C29_Deploying =>
        /\ C29_Has("isfile") => (C29_TrialDeploy <=> ~cli.arn_at_start)
        /\ ~C29_Has("isfile") => cli.trace = <<>>
        /\ C29_Has("create_function_arn_mapping") =>
               /\ C29_TrialDeploy
               /\ cli.trace[3] = "create_function_arn_mapping"
               /\ C29_Count("create_function_arn_mapping") = 1
        /\ (C29_TrialDeploy /\ cli.stage \notin {"mapping", "failed"}) =>
               C29_Has("create_function_arn_mapping")

\* The final sam deploy comes right after a validation that succeeded.
C29_FinalAfterValidation ==
    C29_Deploying =>
        \A k \in DOMAIN cli.trace :
            (cli.trace[k] = "sam_deploy" /\ k > 2) => cli.trace[k - 1] = "valid"

\* The rollback comes right after a validation that failed in a run that
\* made the trial deployment, and such a run ends with the error of line 519
\* and without a final deploy.
C29_RollbackOnlyAfterTrial ==
    C29_Deploying =>
        /\ \A k \in DOMAIN cli.trace :
               cli.trace[k] = "rollback_first_deployment" =>
                   /\ C29_TrialDeploy
                   /\ C29_Has("create_function_arn_mapping")
                   /\ k > 1
                   /\ cli.trace[k - 1] = "invalid"
                   /\ k = Len(cli.trace)
        /\ C29_Has("rollback_first_deployment") =>
               /\ cli.stage \in {"raise", "failed"}
               /\ cli.stage = "failed" =>
                      cli.error = "ValueError: Invalid build artifacts"
               /\ ~C29_FinalDeploy
        /\ (C29_Ended /\ C29_TrialDeploy /\ C29_Has("invalid")) =>
               C29_Has("rollback_first_deployment")

C30_Invoking == "invoked" \in DOMAIN cli
C30_Ended == cli.stage \in {"done", "failed"}
C30_Read == cli.template # NoFile /\ "Globals" \in DOMAIN cli.template
C30_Finish == select_finish_functions(cli.template, Len(cli.template.Functions))
C30_DynamoDB == cli.template.Globals.UnumIntermediaryDataStoreType = "dynamodb"
C30_Seen(f) == "return" \in DOMAIN f
C30_AllSeen == \A k \in DOMAIN cli.finish_functions : C30_Seen(cli.finish_functions[k])
C30_Item(k) == function_name(cli.sam_output, cli.finish_functions[k])

\* The invocation was made, succeeded, and its output is awaited.
C30_Awaiting ==
    /\ C30_Invoking
    /\ cli.finish_functions # <<>>
    /\ C30_DynamoDB

C30_InvokedOnce ==
    C30_Invoking =>
        /\ Len(cli.invoked) <= 1
        /\ cli.stage \in {"finish", "poll", "get_item", "done"} => Len(cli.invoked) = 1
        /\ Len(cli.invoked) = 1 =>
               /\ cli.start_function # PyNone
               /\ cli.invoked[1] = cli.start_function.str
               /\ cli.start_function = select_start_function(cli.template)
        /\ (C30_Ended /\ cli.AWS_PROFILE /\ C30_Read) =>
               IF select_start_function(cli.template) = PyNone
               THEN /\ cli.stage = "failed"
                    /\ cli.invoked = <<>>
                    /\ cli.polls = 0
                    /\ cli.error
                         = "ValueError: Failed to find the Start function on the unum template"
               ELSE Len(cli.invoked) = 1
        /\ cli.error = "OSError: Failed to invoke to AWS" =>
               /\ cli.stage = "failed"
               /\ Len(cli.invoked) = 1
               /\ cli.polls = 0

\* The run returns with every awaited item seen in the table, or without
\* polling when there is nothing to await; it ends otherwise only by the
\* exception of reading the session id, before any poll.
C30_ReturnsAfterSeen ==
    C30_Invoking =>
        /\ (cli.stage = "done" /\ C30_Awaiting) =>
               /\ cli.finish_functions = [k \in DOMAIN C30_Finish |->
                      Returned(C30_Finish[k], C30_Item(k))]
               /\ \A k \in DOMAIN cli.finish_functions : C30_Item(k) \in cli.table
               /\ cli.polls >= IF Len(C30_Finish) < MaxPolls THEN Len(C30_Finish)
                               ELSE MaxPolls
        /\ (cli.stage = "done" /\ ~C30_Awaiting) =>
               /\ cli.polls = 0
               /\ C30_Finish = <<>> \/ ~C30_DynamoDB
        /\ (cli.stage = "done" /\ C30_Finish = <<>>) => cli.polls = 0
        /\ (cli.stage = "failed" /\ C30_Awaiting) =>
               /\ ~HasSessionId(cli.sam_output)
               /\ cli.error \in {"IndexError", "JSONDecodeError"}
               /\ cli.polls = 0
        /\ \A k \in DOMAIN cli.finish_functions :
               C30_Seen(cli.finish_functions[k]) <=> k <= cli.i

\* No timeout: while the awaited item is not in the table the run stays in
\* its loop.
C30_StaysPolling ==
    (/\ C30_Invoking
     /\ cli.stage = "get_item"
     /\ C30_Item(cli.i + 1) \notin cli.table)
        => cli'.stage = "get_item"

\* Every awaited item is in the table and the session id was read.
C30_AllAppeared ==
    /\ C30_Awaiting
    /\ cli.stage \in {"poll", "get_item"}
    /\ HasSessionId(cli.sam_output)
    /\ \A k \in DOMAIN cli.finish_functions : C30_Item(k) \in cli.table

=============================================================================
